---- MODULE Spec2Model ----
(***************************************************************************)
(* Model of the page editor (PageEditor component) of the project manager: *)
(* the in-memory block list of one page, the block operations addBlock,    *)
(* updateBlock, deleteBlock and moveBlock, the load of the page content    *)
(* (JSON.parse with the fallback text block), the explicit save            *)
(* (JSON.stringify and the update call) and the Save / Cancel buttons.     *)
(*                                                                         *)
(* JavaScript arrays are sequences (array index i is sequence index i+1),  *)
(* objects are records, a stored string is a sequence of JSON tokens.      *)
(***************************************************************************)
EXTENDS Integers, Sequences, FiniteSets, TLC

\* ------------------------------------------------------------------------
\* Bounds of the model
\* ------------------------------------------------------------------------
\* Longest block list the model builds.
MaxBlocks == 3
\* Largest advance of the clock read by Date.now().
MaxTicks == 1
\* First value of the clock (any value above the literal id block-1).
Epoch == 2
\* Page saves whose update call is in flight at the same time.
MaxSaves == 1
\* Page loads (loadPageData) awaiting the backend at the same time.
MaxLoads == 1
\* Image uploads in flight at the same time.
MaxUploads == 1
\* Block operations (insert, update, move, remove) of one editing session.
MaxOps == 3
\* Block operations of a session whose saves, loads and uploads are followed too.
MaxSessionOps == 2
\* Operations of the user in the database viewer and its entry form.
MaxEntryOps == 4
\* saveEntry calls awaiting the backend at the same time.
MaxEntrySaves == 1
\* loadEntries calls awaiting the backend at the same time.
MaxEntryLoads == 2
\* handleSave calls of the database builder awaiting the backend at the same time.
MaxDatabaseSaves == 1
\* createPage calls awaiting the backend at the same time.
MaxPageCreates == 2
\* Pages of a project.
MaxPages == 3
\* handleCreateProject calls awaiting the backend at the same time.
MaxProjectCreates == 2
\* Projects of a user.
MaxProjects == 2
\* Database records of a project.
MaxRecords == 2
\* Block operations of a session in which the title is edited too.
MaxSaveOps == 1
\* Operations of the user in the database builder and its property dialog.
MaxBuilderOps == 4

\* ------------------------------------------------------------------------
\* Block tags and payloads
\* ------------------------------------------------------------------------
\* Block['type']
BlockTypes == {"text", "heading", "image", "database", "gallery", "embed", "divider"}

\* A runtime string outside Block['type'] (the type is erased at run time).
UnknownType == "video"

\* `position?: number` left out by the caller.
NoPosition == -1

\* The id literal of the block made by createPage and by the load fallback.
BlockOneId == "block-1"

\* `block-${Date.now()}`
BlockIdAt(t) == "block-" \o ToString(t)

\* Variant of getDefaultContent without the heading case: a heading falls
\* through to the default branch.
getDefaultContentNoHeading(type) ==
  CASE type = "text"     -> [text |-> "", format |-> "paragraph"]
    [] type = "image"    -> [url |-> "", caption |-> "", alt |-> ""]
    [] type = "database" -> [databaseId |-> "", viewType |-> "table"]
    [] type = "gallery"  -> [assets |-> <<>>, layout |-> "grid"]
    [] type = "embed"    -> [url |-> "", title |-> "", description |-> ""]
    [] OTHER             -> <<>>

\* getDefaultContent(type): the switch with its default branch.
getDefaultContent(type) ==
  CASE type = "text"     -> [text |-> "", format |-> "paragraph"]
    [] type = "heading"  -> [text |-> "", level |-> 1]
    [] type = "image"    -> [url |-> "", caption |-> "", alt |-> ""]
    [] type = "database" -> [databaseId |-> "", viewType |-> "table"]
    [] type = "gallery"  -> [assets |-> <<>>, layout |-> "grid"]
    [] type = "embed"    -> [url |-> "", title |-> "", description |-> ""]
    [] type = "divider"  -> <<>>
    [] OTHER             -> <<>>

\* ------------------------------------------------------------------------
\* JSON text: a string is a sequence of tokens
\* ------------------------------------------------------------------------
Punct(c) == [t |-> c, s |-> "", n |-> 0]
StrTok(x) == [t |-> "str", s |-> x, n |-> 0]
NumTok(k) == [t |-> "num", s |-> "", n |-> k]
BoolTok(b) == [t |-> "bool", s |-> "", n |-> IF b THEN 1 ELSE 0]
\* Text that is not JSON (the markdown written at project creation).
RawTok(x) == [t |-> "raw", s |-> x, n |-> 0]

\* Order in which the keys of an object are written.
KeyOrder == <<"id", "type", "content", "position", "text", "format", "level",
              "url", "caption", "alt", "databaseId", "viewType", "assets",
              "layout", "title", "description">>
NumberKeys == {"position", "level"}
ArrayKeys == {"assets"}
ObjectKeys == {"content"}

RECURSIVE stringifyStrings(_, _)
\* The elements of an array of strings, comma separated.
stringifyStrings(arr, i) ==
  IF i > Len(arr) THEN <<>>
  ELSE (IF i > 1 THEN <<Punct(",")>> ELSE <<>>) \o <<StrTok(arr[i])>>
       \o stringifyStrings(arr, i + 1)

RECURSIVE stringifyMembers(_, _, _)
\* The members of object obj from key number k on; first = no member written yet.
stringifyMembers(obj, k, first) ==
  IF k > Len(KeyOrder) THEN <<>>
  ELSE LET key == KeyOrder[k] IN
    IF key \notin DOMAIN obj THEN stringifyMembers(obj, k + 1, first)
    ELSE (IF first THEN <<>> ELSE <<Punct(",")>>)
         \o <<StrTok(key), Punct(":")>>
         \o (CASE key \in NumberKeys -> <<NumTok(obj[key])>>
               [] key \in ArrayKeys ->
                    <<Punct("[")>> \o stringifyStrings(obj[key], 1) \o <<Punct("]")>>
               [] key \in ObjectKeys ->
                    <<Punct("{")>> \o stringifyMembers(obj[key], 1, TRUE) \o <<Punct("}")>>
               [] OTHER -> <<StrTok(obj[key])>>)
         \o stringifyMembers(obj, k + 1, FALSE)

RECURSIVE stringifyBlocks(_, _)
stringifyBlocks(bs, i) ==
  IF i > Len(bs) THEN <<>>
  ELSE (IF i > 1 THEN <<Punct(",")>> ELSE <<>>)
       \o <<Punct("{")>> \o stringifyMembers(bs[i], 1, TRUE) \o <<Punct("}")>>
       \o stringifyBlocks(bs, i + 1)

\* JSON.stringify(blocks)
JSONstringify(bs) == <<Punct("[")>> \o stringifyBlocks(bs, 1) \o <<Punct("]")>>

ParseFail == [ok |-> FALSE, kind |-> "none", v |-> <<>>, next |-> 0]

RECURSIVE parseValue(_, _), parseElements(_, _, _), parseMembers(_, _, _)
\* One JSON value starting at token i.
parseValue(toks, i) ==
  IF i > Len(toks) THEN ParseFail
  ELSE LET tok == toks[i] IN
    CASE tok.t = "str" -> [ok |-> TRUE, kind |-> "string", v |-> tok.s, next |-> i + 1]
      [] tok.t = "num" -> [ok |-> TRUE, kind |-> "number", v |-> tok.n, next |-> i + 1]
      [] tok.t = "bool" -> [ok |-> TRUE, kind |-> "boolean", v |-> tok.n = 1, next |-> i + 1]
      [] tok.t = "[" ->
           IF i + 1 <= Len(toks) /\ toks[i + 1].t = "]"
           THEN [ok |-> TRUE, kind |-> "array", v |-> <<>>, next |-> i + 2]
           ELSE parseElements(toks, i + 1, <<>>)
      [] tok.t = "{" ->
           IF i + 1 <= Len(toks) /\ toks[i + 1].t = "}"
           THEN [ok |-> TRUE, kind |-> "object", v |-> <<>>, next |-> i + 2]
           ELSE parseMembers(toks, i + 1, <<>>)
      [] OTHER -> ParseFail

\* The elements of an array, token i being the first token of an element.
parseElements(toks, i, acc) ==
  LET r == parseValue(toks, i) IN
  IF ~r.ok \/ r.next > Len(toks) THEN ParseFail
  ELSE CASE toks[r.next].t = "," -> parseElements(toks, r.next + 1, Append(acc, r.v))
         [] toks[r.next].t = "]" ->
              [ok |-> TRUE, kind |-> "array", v |-> Append(acc, r.v), next |-> r.next + 1]
         [] OTHER -> ParseFail

\* The members of an object, token i being the key of a member.
parseMembers(toks, i, acc) ==
  IF i + 1 > Len(toks) \/ toks[i].t # "str" \/ toks[i + 1].t # ":" THEN ParseFail
  ELSE LET r == parseValue(toks, i + 2) IN
    IF ~r.ok \/ r.next > Len(toks) THEN ParseFail
    ELSE LET obj == (toks[i].s :> r.v) @@ acc IN
      CASE toks[r.next].t = "," -> parseMembers(toks, r.next + 1, obj)
        [] toks[r.next].t = "}" ->
             [ok |-> TRUE, kind |-> "object", v |-> obj, next |-> r.next + 1]
        [] OTHER -> ParseFail

\* JSON.parse(text): ok = FALSE when it throws.
JSONparse(toks) ==
  LET r == parseValue(toks, 1) IN
  IF r.ok /\ r.next = Len(toks) + 1 THEN r ELSE ParseFail

\* ------------------------------------------------------------------------
\* The block operations of PageEditor, as functions of the block list
\* ------------------------------------------------------------------------
\* Variant of spliceInsert that inserts one place too early.
spliceInsertBefore(arr, start, item) ==
  LET at == IF start > Len(arr) THEN Len(arr) ELSE start
      to == IF at > 0 THEN at - 1 ELSE 0
  IN SubSeq(arr, 1, to) \o <<item>> \o SubSeq(arr, to + 1, Len(arr))

\* arr.splice(start, 0, item): start beyond the end is clamped to the end.
spliceInsert(arr, start, item) ==
  LET at == IF start > Len(arr) THEN Len(arr) ELSE start IN
  SubSeq(arr, 1, at) \o <<item>> \o SubSeq(arr, at + 1, Len(arr))

\* arr.splice(index, 1): the array without the element at index.
spliceRemove(arr, index) ==
  SubSeq(arr, 1, index) \o SubSeq(arr, index + 2, Len(arr))

\* Variant of reindex that leaves the positions as they are.
reindexNothing(arr) == arr

\* blocks.forEach((block, index) => block.position = index), and the
\* equivalent map((block, index) => ({ ...block, position: index })).
reindex(arr) == [i \in 1..Len(arr) |-> [arr[i] EXCEPT !.position = i - 1]]

\* prev.findIndex(block => block.id === blockId): -1 when there is none.
findIndex(bs, blockId) ==
  IF \E i \in 1..Len(bs) : bs[i].id = blockId
  THEN (CHOOSE i \in 1..Len(bs) :
          bs[i].id = blockId /\ \A j \in 1..(i - 1) : bs[j].id # blockId) - 1
  ELSE -1

\* addBlock(type, position) at clock value t: the list handed to setBlocks.
addBlock(bs, type, position, t) ==
  LET newPosition == IF position = NoPosition THEN Len(bs) ELSE position
      newBlock == [id |-> BlockIdAt(t), type |-> type,
                   position |-> newPosition, content |-> getDefaultContent(type)]
  IN reindex(spliceInsert(bs, newPosition, newBlock))

\* Variant of updateBlock without the id test: every block gets the payload.
updateBlockEvery(bs, blockId, content) ==
  [i \in 1..Len(bs) |-> [bs[i] EXCEPT !.content = content]]

\* updateBlock(blockId, content)
updateBlock(bs, blockId, content) ==
  [i \in 1..Len(bs) |->
     IF bs[i].id = blockId THEN [bs[i] EXCEPT !.content = content] ELSE bs[i]]

\* deleteBlock(blockId)
deleteBlock(bs, blockId) ==
  LET keep(b) == b.id # blockId IN reindex(SelectSeq(bs, keep))

\* Variant of moveBlock without the test of newIndex against the ends of the
\* list: splice counts a negative start from the end of the array.
moveBlockUnchecked(bs, blockId, direction) ==
  LET blockIndex == findIndex(bs, blockId)
      newIndex == IF direction = "up" THEN blockIndex - 1 ELSE blockIndex + 1
      rest == spliceRemove(bs, blockIndex)
      start == IF newIndex >= 0 THEN newIndex
               ELSE IF Len(rest) + newIndex >= 0 THEN Len(rest) + newIndex ELSE 0
  IN IF blockIndex = -1 THEN bs
     ELSE reindex(spliceInsert(rest, start, bs[blockIndex + 1]))

\* moveBlock(blockId, direction)
moveBlock(bs, blockId, direction) ==
  LET blockIndex == findIndex(bs, blockId)
      newIndex == IF direction = "up" THEN blockIndex - 1 ELSE blockIndex + 1
  IN IF blockIndex = -1 THEN bs
     ELSE IF newIndex < 0 \/ newIndex >= Len(bs) THEN bs
     ELSE reindex(spliceInsert(spliceRemove(bs, blockIndex), newIndex,
                               bs[blockIndex + 1]))

\* ------------------------------------------------------------------------
\* Page content and its load
\* ------------------------------------------------------------------------
\* Variant of serialize that stores the blocks without their positions.
serializeNoPosition(bs) ==
  [isNull |-> FALSE,
   toks |-> JSONstringify(
     [i \in 1..Len(bs) |->
        [k \in DOMAIN bs[i] \ {"position"} |-> bs[i][k]]])]

\* content: JSON.stringify(blocks) in handleSave: the content sent to the backend.
serialize(bs) == [isNull |-> FALSE, toks |-> JSONstringify(bs)]

\* A stored page content: null, or a string (its tokens).
NullContent == [isNull |-> TRUE, toks |-> <<>>]
StringContent(toks) == [isNull |-> FALSE, toks |-> toks]

\* Truthiness of page.content: null and '' are falsy.
truthy(content) == ~content.isNull /\ content.toks # <<>>

\* The text of a JSON document when it is shown as plain text.
JsonText == "[json]"

\* page.content || '' as the text of a block.
contentText(content) ==
  IF ~truthy(content) THEN ""
  ELSE IF Len(content.toks) = 1 /\ content.toks[1].t = "raw" THEN content.toks[1].s
  ELSE JsonText

\* Variant of fallbackBlocks that drops the content: the text is empty.
fallbackBlocksEmpty(content) ==
  <<[id |-> BlockOneId, type |-> "text",
     content |-> [text |-> "", format |-> "paragraph"],
     position |-> 0]>>

\* The catch branch of loadPageData: a single text block holding the content.
fallbackBlocks(content) ==
  <<[id |-> BlockOneId, type |-> "text",
     content |-> [text |-> contentText(content), format |-> "paragraph"],
     position |-> 0]>>

\* The first two statements of loadPageData: parse the content into blocks.
\* threw = JSON.parse raised, which the catch branch answers.
loadParse(content) ==
  IF truthy(content)
  THEN LET r == JSONparse(content.toks) IN
       IF r.ok
       THEN [threw |-> FALSE, blocks |-> IF r.kind = "array" THEN r.v ELSE <<>>]
       ELSE [threw |-> TRUE, blocks |-> fallbackBlocks(content)]
  ELSE [threw |-> FALSE, blocks |-> <<>>]

\* The page made by createPage: one welcome text block.
createPageContent ==
  StringContent(JSONstringify(
    <<[id |-> BlockOneId, type |-> "text",
       content |-> [text |-> "Welcome", format |-> "paragraph"],
       position |-> 0]>>))

\* The default page made by handleCreateProject: markdown, not JSON.
createProjectContent == StringContent(<<RawTok("# Project")>>)

\* Contents a page record can hold when the editor mounts.
InitialContents ==
  {NullContent, StringContent(<<>>), createProjectContent, createPageContent}

\* A render of the block list throws, and React unmounts the editor, when
\* BlockRenderer evaluates the free identifier `databases` for a block of type
\* database (ReferenceError), or HeadingBlockEditor calls toString() on a
\* payload without a level (TypeError).
renderThrows(bs) ==
  \E i \in 1..Len(bs) :
    \/ bs[i].type = "database"
    \/ bs[i].type = "heading" /\ "level" \notin DOMAIN bs[i].content

\* ------------------------------------------------------------------------
\* User input
\* ------------------------------------------------------------------------
\* Texts typed into a text area, a heading input or a caption input.
TypedTexts == {"a"}
\* Options of the format select of TextBlockEditor.
Formats == {"paragraph", "quote"}
\* Options of the level select of HeadingBlockEditor.
Levels == {1, 2}
\* The url pasted into ImageBlockEditor, the url and the file name of an upload.
PastedUrl == "u"
PublicUrl == "p"
FileName == "f"

\* { ...content, [key]: value }
withField(content, key, value) == (key :> value) @@ content

\* content[key] is a non-empty string (a truthy url).
truthyField(content, key) == key \in DOMAIN content /\ content[key] # ""

\* DatabaseBlockEditor: what it draws for a block and the databases handed
\* to it: the select of databases, the "Database not found" card, or the table.
DatabaseBlockEditor(block, dbs) ==
  IF ~truthyField(block.content, "databaseId") THEN "select"
  ELSE IF \A i \in 1..Len(dbs) : dbs[i].id # block.content.databaseId
       THEN "not found"
       ELSE "table"

\* The values of `choices` that differ from content[key].
otherValues(content, key, choices) ==
  IF key \in DOMAIN content THEN choices \ {content[key]} ELSE choices

\* The payloads the editor of block b hands to onUpdate.
EditorContents(b) ==
  LET c == b.content IN
  CASE b.type = "text" ->
         {withField(c, "text", s) : s \in otherValues(c, "text", TypedTexts)}
         \cup {withField(c, "format", f) : f \in otherValues(c, "format", Formats)}
    [] b.type = "heading" ->
         {withField(c, "text", s) : s \in otherValues(c, "text", TypedTexts)}
         \cup {withField(c, "level", l) : l \in otherValues(c, "level", Levels)}
    [] b.type = "image" ->
         IF truthyField(c, "url")
         THEN {withField(c, "caption", s) : s \in otherValues(c, "caption", TypedTexts)}
         ELSE {withField(c, "url", PastedUrl)}
    [] OTHER -> {}

\* ------------------------------------------------------------------------
\* State
\* ------------------------------------------------------------------------
VARIABLES
  blocks,     \* useState<Block[]>: the in-memory block list
  isEditing,  \* useState(false): the Save / Cancel buttons are shown
  page,       \* page.content, the prop handed down by ProjectPage
  stored,     \* the content of the page record in the backend
  loads,      \* loadPageData calls awaiting the backend: [pc, content]
  saves,      \* handleSave calls awaiting pages.update: the content sent
  uploads,    \* handleFileUpload calls awaiting storage.upload: [id, content]
  ticks,      \* the last reading of the clock behind Date.now(), from Epoch
  crashed,    \* a render threw: React unmounted the editor
  ops,        \* block operations done so far
  last,       \* the last operation and its arguments
  snapshot,   \* the block list of the last load or successful save
  title,      \* useState(page.title): the title input of the page editor
  storedTitle \* the title of the page record in the backend

\* DatabaseViewer and its EntryEditorDialog.
VARIABLES
  database,        \* the database prop: [id, properties]
  entries,         \* useState<DatabaseEntry[]>
  searchQuery,     \* useState(''): a string
  isAddEntryOpen,  \* useState(false): the entry dialog is open
  editingEntry,    \* useState<DatabaseEntry | null>
  formData,        \* EntryEditorDialog: useState<Record<string, any>>
  entryLoads,      \* loadEntries calls awaiting databaseEntries.list
  entrySaves,      \* saveEntry calls awaiting the backend: [pc, data, entry, id]
  entryStore,      \* the entry records of the backend
  entryCalls,      \* the create / update calls issued to databaseEntries
  entryOps         \* operations done in the viewer so far

\* DatabaseBuilder and its PropertyEditorDialog.
VARIABLES
  properties,            \* useState<DatabaseProperty[]>
  isPropertyDialogOpen,  \* useState(false)
  editingProperty,       \* useState<DatabaseProperty | null>
  propertyDialog,        \* PropertyEditorDialog: [name, type, required, options, newOption]
  builderOps             \* operations done in the builder so far

\* ProjectPage: loading the databases of a project.
VARIABLES
  databaseRecords,  \* the database records of the backend: [id, properties]
  databases,        \* useState<Database[]>
  projectLoad,      \* where loadProjectData stands
  loading,          \* useState(true)
  editingDatabase,       \* useState<Database | null>
  isDatabaseBuilderOpen, \* useState(false)
  databaseSaves     \* DatabaseBuilder.handleSave calls awaiting the backend

\* ProjectPage: creating pages.
VARIABLES
  pages,             \* useState<Page[]>: [id, position, isMainPage]
  pageRecords,       \* the page records of the backend
  pageCreates,       \* createPage calls awaiting the backend: [pc, length, page]
  currentPage,       \* useState<Page | null>
  isCreatePageOpen   \* useState(false)

\* Projects: creating projects.
VARIABLES
  projects,            \* useState<Project[]>
  projectRecords,      \* the project records of the backend
  projectCreates,      \* handleCreateProject calls awaiting the backend
  newProject,          \* useState({ title, ... }): the form
  isCreateDialogOpen   \* useState(false)

editorVars == <<blocks, isEditing, page, stored, loads, saves, uploads, ticks,
                crashed, ops, last, snapshot, title, storedTitle>>
viewerVars == <<database, entries, searchQuery, isAddEntryOpen, editingEntry,
                formData, entryLoads, entrySaves, entryStore, entryCalls,
                entryOps>>
builderVars == <<properties, isPropertyDialogOpen, editingProperty,
                 propertyDialog, builderOps>>
projectVars == <<databaseRecords, databases, projectLoad, loading,
                 editingDatabase, isDatabaseBuilderOpen, databaseSaves>>
pagesVars == <<pages, pageRecords, pageCreates, currentPage, isCreatePageOpen>>
projectsVars == <<projects, projectRecords, projectCreates, newProject,
                  isCreateDialogOpen>>
createVars == <<pagesVars, projectsVars>>
databaseVars == <<viewerVars, builderVars, projectVars, createVars>>

vars == <<editorVars, databaseVars>>

\* Date.now() when the clock stands at tick t.
DateNow(t) == Epoch + t

\* index: the array index the operation was invoked at; found: the index
\* at which the operation found the id in the list before it ran (-1: none).
Op(name, id, index, direction, found) ==
  [op |-> name, id |-> id, index |-> index, direction |-> direction,
   found |-> found]

\* The effect of [page.content, page.projectId]: what loadPageData does before
\* its first await.  The awaited part runs only when JSON.parse did not throw
\* (page.projectId is set on every page this program creates).
effectBlocks(content) == loadParse(content).blocks
effectLoads(content) ==
  IF loadParse(content).threw THEN <<>> ELSE <<[pc |-> "me", content |-> content]>>

\* page.title of the page the editor is mounted on, and what the user types
\* over it.
PageTitle == "Page"
TypedTitles == {"Page", "Draft"}

\* The page editor mounted on a page whose record holds content c.
EditorInit(c) ==
  /\ page = c
  /\ stored = c
  /\ blocks = effectBlocks(c)
  /\ snapshot = effectBlocks(c)
  /\ loads = effectLoads(c)
  /\ crashed = renderThrows(effectBlocks(c))
  /\ isEditing = FALSE
  /\ saves = <<>>
  /\ uploads = <<>>
  /\ ticks = 0
  /\ ops = 0
  /\ last = Op("load", "", -1, "", -1)
  /\ title = PageTitle
  /\ storedTitle = PageTitle

\* ------------------------------------------------------------------------
\* Block operations
\* ------------------------------------------------------------------------
\* A state change of the block list and the render that follows it.
SetBlocks(bs) ==
  /\ blocks' = bs
  /\ crashed' = renderThrows(bs)

CanOperate == ~crashed /\ ops < MaxOps

\* AddBlockMenu (no position) or the AddBlockButton of block index
\* `position - 1`, with the clock at tick t (it never runs backwards).
AddBlock(type, position, t) ==
  /\ CanOperate
  /\ Len(blocks) < MaxBlocks
  /\ t >= ticks
  /\ ticks' = t
  /\ SetBlocks(addBlock(blocks, type, position, DateNow(t)))
  /\ isEditing' = TRUE
  /\ ops' = ops + 1
  /\ last' = Op("add", BlockIdAt(DateNow(t)),
                IF position = NoPosition THEN Len(blocks) ELSE position, "", -1)
  /\ UNCHANGED <<page, stored, loads, saves, uploads, snapshot,
                 title, storedTitle, databaseVars>>

\* Variant of UpdateBlock that sends the page to the backend on every change.
UpdateBlockAutosave(i, content) ==
  /\ CanOperate
  /\ SetBlocks(updateBlock(blocks, blocks[i].id, content))
  /\ isEditing' = TRUE
  /\ ops' = ops + 1
  /\ last' = Op("update", blocks[i].id, i - 1, "", findIndex(blocks, blocks[i].id))
  /\ saves' = Append(saves,
       [title |-> title,
        content |-> serialize(updateBlock(blocks, blocks[i].id, content)),
        blocks |-> updateBlock(blocks, blocks[i].id, content)])
  /\ UNCHANGED <<page, stored, loads, uploads, ticks, snapshot,
                 title, storedTitle, databaseVars>>

\* onUpdate of the editor of the block at index i (1-based).
UpdateBlock(i, content) ==
  /\ CanOperate
  /\ SetBlocks(updateBlock(blocks, blocks[i].id, content))
  /\ isEditing' = TRUE
  /\ ops' = ops + 1
  /\ last' = Op("update", blocks[i].id, i - 1, "", findIndex(blocks, blocks[i].id))
  /\ UNCHANGED <<page, stored, loads, saves, uploads, ticks, snapshot,
                 title, storedTitle, databaseVars>>

\* onDelete of the block at index i.
DeleteBlock(i) ==
  /\ CanOperate
  /\ SetBlocks(deleteBlock(blocks, blocks[i].id))
  /\ isEditing' = TRUE
  /\ ops' = ops + 1
  /\ last' = Op("delete", blocks[i].id, i - 1, "", findIndex(blocks, blocks[i].id))
  /\ UNCHANGED <<page, stored, loads, saves, uploads, ticks, snapshot,
                 title, storedTitle, databaseVars>>

\* canMoveUp / canMoveDown: the arrow buttons are disabled at the ends.
canMove(i, direction) ==
  IF direction = "up" THEN i - 1 > 0 ELSE i - 1 < Len(blocks) - 1

\* onMoveUp / onMoveDown of the block at index i.
MoveBlock(i, direction) ==
  /\ CanOperate
  /\ canMove(i, direction)
  /\ SetBlocks(moveBlock(blocks, blocks[i].id, direction))
  /\ isEditing' = TRUE
  /\ ops' = ops + 1
  /\ last' = Op("move", blocks[i].id, i - 1, direction,
                findIndex(blocks, blocks[i].id))
  /\ UNCHANGED <<page, stored, loads, saves, uploads, ticks, snapshot,
                 title, storedTitle, databaseVars>>

\* ImageBlockEditor.handleFileUpload up to its await: the closure keeps the
\* block's id and the payload of this render.
UploadStart(i) ==
  /\ ~crashed
  /\ blocks[i].type = "image"
  /\ ~truthyField(blocks[i].content, "url")
  /\ Len(uploads) < MaxUploads
  /\ uploads' = Append(uploads, [id |-> blocks[i].id, content |-> blocks[i].content])
  /\ last' = Op("upload", blocks[i].id, i - 1, "", -1)
  /\ UNCHANGED <<blocks, isEditing, page, stored, loads, saves, ticks, crashed,
                 ops, snapshot,
                 title, storedTitle, databaseVars>>

\* storage.upload resolved: onUpdate({ ...block.content, url, alt }).
UploadDone ==
  /\ ~crashed
  /\ uploads # <<>>
  /\ LET u == Head(uploads) IN
       /\ SetBlocks(updateBlock(blocks, u.id,
                      withField(withField(u.content, "url", PublicUrl),
                                "alt", FileName)))
       /\ last' = Op("uploaded", u.id, -1, "", findIndex(blocks, u.id))
  /\ uploads' = Tail(uploads)
  /\ isEditing' = TRUE
  /\ UNCHANGED <<page, stored, loads, saves, ticks, ops, snapshot,
                 title, storedTitle, databaseVars>>

\* storage.upload rejected: logged, nothing else.
UploadFailed ==
  /\ ~crashed
  /\ uploads # <<>>
  /\ uploads' = Tail(uploads)
  /\ last' = Op("uploadFailed", Head(uploads).id, -1, "", -1)
  /\ UNCHANGED <<blocks, isEditing, page, stored, loads, saves, ticks, crashed,
                 ops, snapshot,
                 title, storedTitle, databaseVars>>

\* ------------------------------------------------------------------------
\* Save, cancel and load
\* ------------------------------------------------------------------------
\* handleSave up to its await: JSON.stringify(blocks) goes to pages.update.
SaveStart ==
  /\ ~crashed
  /\ isEditing
  /\ Len(saves) < MaxSaves
  /\ saves' = Append(saves, [title |-> title, content |-> serialize(blocks),
                            blocks |-> blocks])
  /\ last' = Op("save", "", -1, "", -1)
  /\ UNCHANGED <<blocks, isEditing, page, stored, loads, uploads, ticks, crashed,
                 ops, snapshot,
                 title, storedTitle, databaseVars>>

\* pages.update resolved: onSave(updatedPage) makes ProjectPage hand the saved
\* content down as page.content, setIsEditing(false), and the load effect runs
\* again when page.content changed.  After a crash only the backend changes.
SaveOk ==
  /\ saves # <<>>
  /\ LET sv == Head(saves) IN
       /\ stored' = sv.content
       /\ storedTitle' = sv.title
       /\ IF crashed
          THEN UNCHANGED <<blocks, isEditing, page, loads, crashed, snapshot, last>>
          ELSE /\ page' = sv.content
               /\ isEditing' = FALSE
               /\ snapshot' = sv.blocks
               /\ last' = Op("saved", "", -1, "", -1)
               /\ IF sv.content # page
                  THEN /\ Len(loads) < MaxLoads
                       /\ SetBlocks(effectBlocks(sv.content))
                       /\ loads' = loads \o effectLoads(sv.content)
                  ELSE UNCHANGED <<blocks, crashed, loads>>
  /\ saves' = Tail(saves)
  /\ UNCHANGED <<uploads, ticks, ops,
                 title, databaseVars>>

\* Variant of SaveFailed that leaves the editing state as a successful save does.
SaveFailedStopsEditing ==
  /\ saves # <<>>
  /\ saves' = Tail(saves)
  /\ isEditing' = FALSE
  /\ last' = IF crashed THEN last ELSE Op("saveFailed", "", -1, "", -1)
  /\ UNCHANGED <<blocks, page, stored, loads, uploads, ticks, crashed,
                 ops, snapshot, title, storedTitle, databaseVars>>

\* pages.update rejected: the catch branch logs and returns.
SaveFailed ==
  /\ saves # <<>>
  /\ saves' = Tail(saves)
  /\ last' = IF crashed THEN last ELSE Op("saveFailed", "", -1, "", -1)
  /\ UNCHANGED <<blocks, isEditing, page, stored, loads, uploads, ticks, crashed,
                 ops, snapshot,
                 title, storedTitle, databaseVars>>

\* The Cancel button: onClick={() => setIsEditing(false)}.
Cancel ==
  /\ ~crashed
  /\ isEditing
  /\ isEditing' = FALSE
  /\ last' = Op("cancel", "", -1, "", -1)
  /\ UNCHANGED <<blocks, page, stored, loads, saves, uploads, ticks, crashed,
                 ops, snapshot,
                 title, storedTitle, databaseVars>>

\* The awaited calls of loadPageData, in order.
NextLoadPc(pc) ==
  CASE pc = "me" -> "databases"
    [] pc = "databases" -> "assets"
    [] OTHER -> "done"

RemoveAt(q, i) == SubSeq(q, 1, i - 1) \o SubSeq(q, i + 1, Len(q))

\* One awaited call of load i resolved (auth.me, databases.list, assets.list).
LoadStep(i) ==
  /\ ~crashed
  /\ loads' = IF NextLoadPc(loads[i].pc) = "done" THEN RemoveAt(loads, i)
              ELSE [loads EXCEPT ![i].pc = NextLoadPc(loads[i].pc)]
  /\ UNCHANGED <<blocks, isEditing, page, stored, saves, uploads, ticks, crashed,
                 ops, last, snapshot,
                 title, storedTitle, databaseVars>>

\* One awaited call of load i rejected: the catch branch replaces the block
\* list by the fallback text block built from the content of that load.
LoadFailed(i) ==
  /\ ~crashed
  /\ SetBlocks(fallbackBlocks(loads[i].content))
  /\ snapshot' = fallbackBlocks(loads[i].content)
  /\ loads' = RemoveAt(loads, i)
  /\ last' = Op("loadFailed", "", -1, "", -1)
  /\ UNCHANGED <<isEditing, page, stored, saves, uploads, ticks, ops,
                 title, storedTitle, databaseVars>>

\* The positions the add buttons pass: none (the menu below the list) or
\* index + 1 (the button of the block at index).
AddPositions == {NoPosition} \cup (1..Len(blocks))

\* ------------------------------------------------------------------------
\* Strings and values of the database components
\* ------------------------------------------------------------------------
\* A string the user types is a sequence of characters.
Space == " "
lowerChar(c) == CASE c = "A" -> "a" [] c = "B" -> "b" [] OTHER -> c

\* s.toLowerCase()
toLowerCase(s) == [i \in 1..Len(s) |-> lowerChar(s[i])]

\* Variant of includes that finds the query at the start of the string only.
startsWith(s, q) == Len(q) <= Len(s) /\ SubSeq(s, 1, Len(q)) = q

\* s.includes(q)
includes(s, q) ==
  \E i \in 0..(Len(s) - Len(q)) : SubSeq(s, i + 1, i + Len(q)) = q

RECURSIVE trimStart(_), trimEnd(_)
trimStart(s) == IF s # <<>> /\ Head(s) = Space THEN trimStart(Tail(s)) ELSE s
trimEnd(s) ==
  IF s # <<>> /\ s[Len(s)] = Space THEN trimEnd(SubSeq(s, 1, Len(s) - 1)) ELSE s

\* s.trim()
trim(s) == trimEnd(trimStart(s))

\* The values of an entry's data map, with what typeof / Array.isArray say.
StringValue(s) == [typeof |-> "string", string |-> s]
BooleanValue(b) == [typeof |-> "boolean", boolean |-> b]
NumberValue(n) == [typeof |-> "number", number |-> n]
ArrayValue(a) == [typeof |-> "object", array |-> a]
\* obj[key] of a key the object does not have.
Undefined == [typeof |-> "undefined"]

\* obj[key]
get(obj, key) == IF key \in DOMAIN obj THEN obj[key] ELSE Undefined

\* DatabaseProperty['type']
PropertyTypes == {"text", "number", "date", "select", "multiSelect", "checkbox",
                  "url", "email", "phone", "rating", "file", "image"}

\* ------------------------------------------------------------------------
\* DatabaseViewer and EntryEditorDialog, as functions
\* ------------------------------------------------------------------------
\* The switch of the effect that initialises the form of a new entry.
initialValue(type) ==
  CASE type = "checkbox"    -> BooleanValue(FALSE)
    [] type = "multiSelect" -> ArrayValue(<<>>)
    [] type = "rating"      -> NumberValue(0)
    [] OTHER                -> StringValue(<<>>)

RECURSIVE initialDataFrom(_, _, _)
\* database.properties.forEach(property => initialData[property.name] = ...)
initialDataFrom(props, i, acc) ==
  IF i > Len(props) THEN acc
  ELSE initialDataFrom(props, i + 1,
         (props[i].name :> initialValue(props[i].type)) @@ acc)

\* initialData: the form data of a new entry.
initialData(props) == initialDataFrom(props, 1, <<>>)

\* updateField(propertyName, value): { ...prev, [propertyName]: value }
updateField(data, propertyName, value) == (propertyName :> value) @@ data

\* Variant of entryMatches that compares without lower-casing.
entryMatchesCaseSensitive(entry, props, query) ==
  IF query = <<>> THEN TRUE
  ELSE \E i \in 1..Len(props) :
         LET value == get(entry.data, props[i].name) IN
         IF value.typeof = "string" THEN includes(value.string, query) ELSE FALSE

\* The predicate of filteredEntries.
entryMatches(entry, props, query) ==
  IF query = <<>> THEN TRUE
  ELSE \E i \in 1..Len(props) :
         LET value == get(entry.data, props[i].name) IN
         IF value.typeof = "string"
         THEN includes(toLowerCase(value.string), toLowerCase(query))
         ELSE FALSE

\* filteredEntries = entries.filter(...)
filteredEntries(es, props, query) ==
  SelectSeq(es, LAMBDA entry : entryMatches(entry, props, query))

\* The properties drawn with the red asterisk in the entry form: the only
\* use the form makes of `required`.
requiredMarkers(props) ==
  {props[i].id : i \in {j \in 1..Len(props) : props[j].required}}

\* ------------------------------------------------------------------------
\* DatabaseViewer and EntryEditorDialog: state and operations
\* ------------------------------------------------------------------------
PropertyIdAt(t) == "prop-" \o ToString(t)
EntryIdAt(t) == "entry-" \o ToString(t)

PropertyNames == {<<"A">>, <<"B">>}
OptionList == <<<<"A", "b">>>>

\* A property as PropertyEditorDialog.handleSave builds it.
Property(id, name, type, required) ==
  IF type \in {"select", "multiSelect"}
  THEN [id |-> id, name |-> name, type |-> type, required |-> required,
        options |-> OptionList]
  ELSE [id |-> id, name |-> name, type |-> type, required |-> required]

\* The schemas of the viewer: one or two properties, the second of which may
\* carry the name of the first (the builder does not compare names).
SecondTypes == {"text", "checkbox", "rating", "select"}
Schemas ==
  LET first == {Property(PropertyIdAt(1), <<"A">>, type, required) :
                  type \in PropertyTypes, required \in BOOLEAN}
      second == {Property(PropertyIdAt(2), name, type, FALSE) :
                   name \in PropertyNames, type \in SecondTypes}
  IN {<<p>> : p \in first} \cup {<<p, q>> : p \in first, q \in second}

\* What the backend holds when the viewer mounts.
InitialEntryStores ==
  {<<>>,
   <<[id |-> EntryIdAt(1), databaseId |-> "db-1",
      data |-> (<<"A">> :> StringValue(<<"A", "b">>))]>>,
   <<[id |-> EntryIdAt(1), databaseId |-> "db-1",
      data |-> (<<"A">> :> ArrayValue(<<<<"A", "b">>>>))
               @@ (<<"B">> :> BooleanValue(TRUE))]>>}

\* editingEntry = null
NoEntry == [id |-> "null"]

\* The strings typed into the inputs of the form and into the search box.
TypedValues == {<<>>, <<Space>>, <<"A", "b">>}
Queries == {<<>>, <<"a">>, <<"a", "B">>, <<"b", "a">>}
Ratings == {1, 5}

\* The values the editor of a property hands to updateField.
FieldValues(property) ==
  CASE property.type \in {"text", "number", "date", "url", "email", "phone"} ->
         {StringValue(x) : x \in TypedValues}
    [] property.type = "checkbox" -> {BooleanValue(TRUE), BooleanValue(FALSE)}
    [] property.type = "select" ->
         IF "options" \in DOMAIN property
         THEN {StringValue(property.options[i]) : i \in 1..Len(property.options)}
         ELSE {}
    [] property.type = "rating" -> {NumberValue(r) : r \in Ratings}
    [] OTHER -> {}

\* The effect of [entry, database.properties] in EntryEditorDialog.
formEffect(entry, props) ==
  IF entry # NoEntry THEN entry.data ELSE initialData(props)

\* The state of a viewer mounted on a database whose entries are being loaded.
ViewerInit(props, store) ==
  /\ database = [id |-> "db-1", properties |-> props]
  /\ entryStore = store
  /\ entries = <<>>
  /\ searchQuery = <<>>
  /\ isAddEntryOpen = FALSE
  /\ editingEntry = NoEntry
  /\ formData = formEffect(NoEntry, props)
  /\ entryLoads = <<"db-1">>
  /\ entrySaves = <<>>
  /\ entryCalls = <<>>
  /\ entryOps = 0

editorVarsButTicks == <<blocks, isEditing, page, stored, loads, saves, uploads,
                        crashed, ops, last, snapshot, title, storedTitle>>
otherThanViewer == <<editorVars, builderVars, projectVars, createVars>>

CanUseViewer == entryOps < MaxEntryOps

\* databaseEntries.list({ where: { databaseId } }) on the records of the backend.
listEntries(store, databaseId) ==
  SelectSeq(store, LAMBDA e : e.databaseId = databaseId)

\* databaseEntries.list of the i-th pending loadEntries call resolved (the
\* responses arrive in any order): setEntries(parsedEntries).
EntryLoadDone(i) ==
  /\ entries' = listEntries(entryStore, entryLoads[i])
  /\ entryLoads' = RemoveAt(entryLoads, i)
  /\ UNCHANGED <<database, searchQuery, isAddEntryOpen, editingEntry, formData,
                 entrySaves, entryStore, entryCalls, entryOps, otherThanViewer>>

\* databaseEntries.list of the i-th pending call rejected: logged.
EntryLoadFailed(i) ==
  /\ entryLoads' = RemoveAt(entryLoads, i)
  /\ UNCHANGED <<database, entries, searchQuery, isAddEntryOpen, editingEntry,
                 formData, entrySaves, entryStore, entryCalls, entryOps,
                 otherThanViewer>>

\* The search box.
SetSearchQuery(query) ==
  /\ CanUseViewer
  /\ ~isAddEntryOpen
  /\ query # searchQuery
  /\ searchQuery' = query
  /\ entryOps' = entryOps + 1
  /\ UNCHANGED <<database, entries, isAddEntryOpen, editingEntry, formData,
                 entryLoads, entrySaves, entryStore, entryCalls, otherThanViewer>>

\* addEntry: the effect of the dialog runs only when `entry` changed.
AddEntry ==
  /\ CanUseViewer
  /\ ~isAddEntryOpen
  /\ editingEntry' = NoEntry
  /\ isAddEntryOpen' = TRUE
  /\ formData' = IF editingEntry # NoEntry
                 THEN formEffect(NoEntry, database.properties) ELSE formData
  /\ entryOps' = entryOps + 1
  /\ UNCHANGED <<database, entries, searchQuery, entryLoads, entrySaves,
                 entryStore, entryCalls, otherThanViewer>>

\* editEntry(entry) of the i-th entry shown.
EditEntry(i) ==
  /\ CanUseViewer
  /\ ~isAddEntryOpen
  /\ LET entry == filteredEntries(entries, database.properties, searchQuery)[i] IN
       /\ editingEntry' = entry
       /\ formData' = IF editingEntry # entry
                      THEN formEffect(entry, database.properties) ELSE formData
  /\ isAddEntryOpen' = TRUE
  /\ entryOps' = entryOps + 1
  /\ UNCHANGED <<database, entries, searchQuery, entryLoads, entrySaves,
                 entryStore, entryCalls, otherThanViewer>>

\* The editor of property i of the form changed to value.
UpdateField(i, value) ==
  /\ CanUseViewer
  /\ isAddEntryOpen
  /\ value # get(formData, database.properties[i].name)
  /\ formData' = updateField(formData, database.properties[i].name, value)
  /\ entryOps' = entryOps + 1
  /\ UNCHANGED <<database, entries, searchQuery, isAddEntryOpen, editingEntry,
                 entryLoads, entrySaves, entryStore, entryCalls, otherThanViewer>>

\* onClose of the dialog (Cancel, Escape, click outside).
CloseEntryDialog ==
  /\ CanUseViewer
  /\ isAddEntryOpen
  /\ isAddEntryOpen' = FALSE
  /\ editingEntry' = NoEntry
  /\ formData' = IF editingEntry # NoEntry
                 THEN formEffect(NoEntry, database.properties) ELSE formData
  /\ entryOps' = entryOps + 1
  /\ UNCHANGED <<database, entries, searchQuery, entryLoads, entrySaves,
                 entryStore, entryCalls, otherThanViewer>>

\* Variant of EntryHandleSave that refuses a form with a blank required field.
EntryHandleSaveChecked ==
  /\ CanUseViewer
  /\ isAddEntryOpen
  /\ Len(entrySaves) < MaxEntrySaves
  /\ \A i \in 1..Len(database.properties) :
       LET property == database.properties[i]
           value == get(formData, property.name)
       IN property.required =>
            /\ value.typeof # "undefined"
            /\ value.typeof = "string" => trim(value.string) # <<>>
  /\ entrySaves' = Append(entrySaves, [pc |-> "me", data |-> formData,
                                       entry |-> editingEntry, id |-> ""])
  /\ entryOps' = entryOps + 1
  /\ UNCHANGED <<database, entries, searchQuery, isAddEntryOpen, editingEntry,
                 formData, entryLoads, entryStore, entryCalls, otherThanViewer>>

\* EntryEditorDialog.handleSave: onSave(formData), and saveEntry up to its
\* first await (auth.me).  The closure keeps the editingEntry of this render.
EntryHandleSave ==
  /\ CanUseViewer
  /\ isAddEntryOpen
  /\ Len(entrySaves) < MaxEntrySaves
  /\ entrySaves' = Append(entrySaves, [pc |-> "me", data |-> formData,
                                       entry |-> editingEntry, id |-> ""])
  /\ entryOps' = entryOps + 1
  /\ UNCHANGED <<database, entries, searchQuery, isAddEntryOpen, editingEntry,
                 formData, entryLoads, entryStore, entryCalls, otherThanViewer>>

\* auth.me resolved: saveEntry issues databaseEntries.update for the entry
\* being edited, or databaseEntries.create with the id entry-<Date.now()>.
EntrySaveStep(t) ==
  /\ entrySaves # <<>>
  /\ Head(entrySaves).pc = "me"
  /\ t >= ticks
  /\ ticks' = t
  /\ LET sv == Head(entrySaves)
         id == IF sv.entry # NoEntry THEN sv.entry.id ELSE EntryIdAt(DateNow(t))
     IN /\ entrySaves' = <<[sv EXCEPT !.pc = "write", !.id = id]>> \o Tail(entrySaves)
        /\ entryCalls' = Append(entryCalls,
             [op |-> IF sv.entry # NoEntry THEN "update" ELSE "create",
              id |-> id, data |-> sv.data])
  /\ UNCHANGED <<database, entries, searchQuery, isAddEntryOpen, editingEntry,
                 formData, entryLoads, entryStore, entryOps,
                 editorVarsButTicks, builderVars, projectVars, createVars>>

\* prev.map(e => e.id === id ? { ...e, data } : e)
replaceData(es, id, data) ==
  [i \in 1..Len(es) |-> IF es[i].id = id THEN [es[i] EXCEPT !.data = data] ELSE es[i]]

\* The update or create call resolved: setEntries, then the dialog is closed
\* and editingEntry reset (which runs the effect of the form when it changes).
EntrySaveDone ==
  /\ entrySaves # <<>>
  /\ Head(entrySaves).pc = "write"
  /\ LET sv == Head(entrySaves) IN
       IF sv.entry # NoEntry
       THEN /\ entryStore' = replaceData(entryStore, sv.id, sv.data)
            /\ entries' = replaceData(entries, sv.id, sv.data)
       ELSE /\ entryStore' = <<[id |-> sv.id, databaseId |-> database.id,
                               data |-> sv.data]>> \o entryStore
            /\ entries' = <<[id |-> sv.id, databaseId |-> database.id,
                            data |-> sv.data]>> \o entries
  /\ entrySaves' = Tail(entrySaves)
  /\ isAddEntryOpen' = FALSE
  /\ editingEntry' = NoEntry
  /\ formData' = IF editingEntry # NoEntry
                 THEN formEffect(NoEntry, database.properties) ELSE formData
  /\ UNCHANGED <<database, searchQuery, entryLoads, entryCalls, entryOps,
                 otherThanViewer>>

\* auth.me, update or create rejected: the catch branch logs and returns.
EntrySaveFailed ==
  /\ entrySaves # <<>>
  /\ entrySaves' = Tail(entrySaves)
  /\ UNCHANGED <<database, entries, searchQuery, isAddEntryOpen, editingEntry,
                 formData, entryLoads, entryStore, entryCalls, entryOps,
                 otherThanViewer>>

\* The database viewer with its entry form.
NextViewer ==
  \/ \E i \in 1..Len(entryLoads) : EntryLoadDone(i)
  \/ \E i \in 1..Len(entryLoads) : EntryLoadFailed(i)
  \/ \E query \in Queries : SetSearchQuery(query)
  \/ AddEntry
  \/ \E i \in 1..Len(filteredEntries(entries, database.properties, searchQuery)) :
       EditEntry(i)
  \/ \E i \in 1..Len(database.properties) :
       \E value \in FieldValues(database.properties[i]) : UpdateField(i, value)
  \/ CloseEntryDialog
  \/ EntryHandleSave
  \/ \E t \in 0..MaxTicks : EntrySaveStep(t)
  \/ EntrySaveDone
  \/ EntrySaveFailed

\* ------------------------------------------------------------------------
\* DatabaseBuilder and PropertyEditorDialog
\* ------------------------------------------------------------------------
\* Variant of moveProperty without the check of the new index.
movePropertyUnchecked(props, propertyId, direction) ==
  LET index == findIndex(props, propertyId)
      newIndex == IF direction = "up" THEN index - 1 ELSE index + 1
  IN IF index = -1 THEN props
     ELSE spliceInsert(spliceRemove(props, index),
                       IF newIndex < 0 THEN Len(props) - 1 ELSE newIndex,
                       props[index + 1])

\* moveProperty(propertyId, direction): the list handed to setProperties.
moveProperty(props, propertyId, direction) ==
  LET index == findIndex(props, propertyId)
      newIndex == IF direction = "up" THEN index - 1 ELSE index + 1
  IN IF index = -1 THEN props
     ELSE IF newIndex < 0 \/ newIndex >= Len(props) THEN props
     ELSE spliceInsert(spliceRemove(props, index), newIndex, props[index + 1])

\* deleteProperty(propertyId): prev.filter(p => p.id !== propertyId)
deleteProperty(props, propertyId) ==
  SelectSeq(props, LAMBDA p : p.id # propertyId)

\* saveProperty(property): replace the property with that id, or append.
saveProperty(props, property) ==
  IF \E i \in 1..Len(props) : props[i].id = property.id
  THEN [i \in 1..Len(props) |-> IF props[i].id = property.id THEN property ELSE props[i]]
  ELSE Append(props, property)

\* savedProperty of PropertyEditorDialog.handleSave, the clock reading t.
savedProperty(property, dialog, t) ==
  LET base == [id |-> IF property.id # "" THEN property.id ELSE PropertyIdAt(t),
               name |-> trim(dialog.name), type |-> dialog.type,
               required |-> dialog.required]
  IN IF dialog.type = "select" \/ dialog.type = "multiSelect"
     THEN base @@ [options |-> dialog.options]
     ELSE base

\* addOption: the list handed to setOptions (unchanged when nothing is added).
addOption(options, newOption) ==
  IF trim(newOption) # <<>> /\ \A i \in 1..Len(options) : options[i] # trim(newOption)
  THEN Append(options, trim(newOption))
  ELSE options

\* removeOption(option)
removeOption(options, option) == SelectSeq(options, LAMBDA o : o # option)

\* editingProperty = null
NoProperty == [id |-> "null"]

\* The effect of [property] in PropertyEditorDialog.
dialogEffect(property) ==
  IF property # NoProperty
  THEN [name |-> property.name, type |-> property.type,
        required |-> property.required,
        options |-> IF "options" \in DOMAIN property THEN property.options ELSE <<>>,
        newOption |-> <<>>]
  ELSE [name |-> <<>>, type |-> "text", required |-> FALSE, options |-> <<>>,
        newOption |-> <<>>]

\* The schemas the builder is opened on: a new database, or one with three
\* properties the first of which is a select.
BuilderSchemas ==
  {<<>>,
   <<Property(PropertyIdAt(1), <<"A">>, "select", FALSE),
     Property(PropertyIdAt(2), <<"B">>, "text", TRUE),
     Property(PropertyIdAt(3), <<"C">>, "checkbox", FALSE)>>}

TypedNames == {<<Space>>, <<"A">>, <<"B", Space>>}
TypedOptions == {<<Space>>, <<"x">>}

BuilderInit(props) ==
  /\ properties = props
  /\ isPropertyDialogOpen = FALSE
  /\ editingProperty = NoProperty
  /\ propertyDialog = dialogEffect(NoProperty)
  /\ builderOps = 0

otherThanBuilder == <<editorVarsButTicks, viewerVars, projectVars, createVars>>

CanUseBuilder == builderOps < MaxBuilderOps

\* addProperty at clock reading t.
AddProperty(t) ==
  /\ CanUseBuilder
  /\ ~isPropertyDialogOpen
  /\ t >= ticks
  /\ ticks' = t
  /\ LET property == [id |-> PropertyIdAt(DateNow(t)), name |-> <<>>,
                      type |-> "text", required |-> FALSE]
     IN /\ editingProperty' = property
        /\ propertyDialog' = dialogEffect(property)
  /\ isPropertyDialogOpen' = TRUE
  /\ builderOps' = builderOps + 1
  /\ UNCHANGED <<properties, otherThanBuilder>>

\* editProperty(property) of the property at index i.
EditProperty(i) ==
  /\ CanUseBuilder
  /\ ~isPropertyDialogOpen
  /\ editingProperty' = properties[i]
  /\ propertyDialog' = dialogEffect(properties[i])
  /\ isPropertyDialogOpen' = TRUE
  /\ builderOps' = builderOps + 1
  /\ UNCHANGED <<properties, ticks, otherThanBuilder>>

\* The trash button of the property at index i.
DeleteProperty(i) ==
  /\ CanUseBuilder
  /\ ~isPropertyDialogOpen
  /\ properties' = deleteProperty(properties, properties[i].id)
  /\ builderOps' = builderOps + 1
  /\ UNCHANGED <<isPropertyDialogOpen, editingProperty, propertyDialog, ticks,
                 otherThanBuilder>>

\* The arrow buttons of the property at index i: disabled at the ends.
MoveProperty(i, direction) ==
  /\ CanUseBuilder
  /\ ~isPropertyDialogOpen
  /\ IF direction = "up" THEN i - 1 # 0 ELSE i - 1 # Len(properties) - 1
  /\ properties' = moveProperty(properties, properties[i].id, direction)
  /\ builderOps' = builderOps + 1
  /\ UNCHANGED <<isPropertyDialogOpen, editingProperty, propertyDialog, ticks,
                 otherThanBuilder>>

\* An input of the dialog changed: field is name, type, required or newOption.
SetDialogField(field, value) ==
  /\ CanUseBuilder
  /\ isPropertyDialogOpen
  /\ propertyDialog[field] # value
  /\ propertyDialog' = [propertyDialog EXCEPT ![field] = value]
  /\ builderOps' = builderOps + 1
  /\ UNCHANGED <<properties, isPropertyDialogOpen, editingProperty, ticks,
                 otherThanBuilder>>

needsOptions == propertyDialog.type = "select" \/ propertyDialog.type = "multiSelect"

\* The Add button (or Enter) of the options input.
AddOption ==
  /\ CanUseBuilder
  /\ isPropertyDialogOpen
  /\ needsOptions
  /\ LET added == addOption(propertyDialog.options, propertyDialog.newOption) IN
       propertyDialog' =
         IF added # propertyDialog.options
         THEN [propertyDialog EXCEPT !.options = added, !.newOption = <<>>]
         ELSE propertyDialog
  /\ builderOps' = builderOps + 1
  /\ UNCHANGED <<properties, isPropertyDialogOpen, editingProperty, ticks,
                 otherThanBuilder>>

\* The remove button of option number i.
RemoveOption(i) ==
  /\ CanUseBuilder
  /\ isPropertyDialogOpen
  /\ needsOptions
  /\ propertyDialog' = [propertyDialog EXCEPT
       !.options = removeOption(propertyDialog.options, propertyDialog.options[i])]
  /\ builderOps' = builderOps + 1
  /\ UNCHANGED <<properties, isPropertyDialogOpen, editingProperty, ticks,
                 otherThanBuilder>>

\* PropertyEditorDialog.handleSave (the button is disabled while the name is
\* blank) and saveProperty of the builder, which closes the dialog.  The
\* property of an open dialog has an id, so the clock is not read.
PropertyHandleSave ==
  /\ CanUseBuilder
  /\ isPropertyDialogOpen
  /\ trim(propertyDialog.name) # <<>>
  /\ properties' = saveProperty(properties,
                                savedProperty(editingProperty, propertyDialog,
                                              DateNow(ticks)))
  /\ isPropertyDialogOpen' = FALSE
  /\ editingProperty' = NoProperty
  /\ propertyDialog' = dialogEffect(NoProperty)
  /\ builderOps' = builderOps + 1
  /\ UNCHANGED <<ticks, otherThanBuilder>>

\* onClose of the property dialog.
ClosePropertyDialog ==
  /\ CanUseBuilder
  /\ isPropertyDialogOpen
  /\ isPropertyDialogOpen' = FALSE
  /\ editingProperty' = NoProperty
  /\ propertyDialog' = dialogEffect(NoProperty)
  /\ builderOps' = builderOps + 1
  /\ UNCHANGED <<properties, ticks, otherThanBuilder>>

\* The database builder with its property dialog.
NextBuilder ==
  \/ \E t \in 0..MaxTicks : AddProperty(t)
  \/ \E i \in 1..Len(properties) : EditProperty(i)
  \/ \E i \in 1..Len(properties) : DeleteProperty(i)
  \/ \E i \in 1..Len(properties), direction \in {"up", "down"} : MoveProperty(i, direction)
  \/ \E value \in TypedNames : SetDialogField("name", value)
  \/ \E value \in PropertyTypes : SetDialogField("type", value)
  \/ \E value \in BOOLEAN : SetDialogField("required", value)
  \/ \E value \in TypedOptions : SetDialogField("newOption", value)
  \/ AddOption
  \/ \E i \in 1..Len(propertyDialog.options) : RemoveOption(i)
  \/ PropertyHandleSave
  \/ ClosePropertyDialog

\* ------------------------------------------------------------------------
\* ProjectPage: loading the databases of a project
\* ------------------------------------------------------------------------
\* JSON.stringify of one property: its members in the order handleSave of
\* the property dialog writes them.
stringifyProperty(property) ==
  <<Punct("{"), StrTok("id"), Punct(":"), StrTok(property.id), Punct(","),
    StrTok("name"), Punct(":"), StrTok(property.name), Punct(","),
    StrTok("type"), Punct(":"), StrTok(property.type), Punct(","),
    StrTok("required"), Punct(":"), BoolTok(property.required)>>
  \o (IF "options" \in DOMAIN property
      THEN <<Punct(","), StrTok("options"), Punct(":"), Punct("[")>>
           \o stringifyStrings(property.options, 1) \o <<Punct("]")>>
      ELSE <<>>)
  \o <<Punct("}")>>

RECURSIVE stringifyPropertiesFrom(_, _)
stringifyPropertiesFrom(props, i) ==
  IF i > Len(props) THEN <<>>
  ELSE (IF i > 1 THEN <<Punct(",")>> ELSE <<>>) \o stringifyProperty(props[i])
       \o stringifyPropertiesFrom(props, i + 1)

\* JSON.stringify(properties), as the builder and createDatabase store it.
stringifyProperties(props) ==
  <<Punct("[")>> \o stringifyPropertiesFrom(props, 1) \o <<Punct("]")>>

\* The properties field of a database record: a string, or (typeof is not
\* 'string') a list the client library has parsed already.
PropertiesText(toks) == [typeof |-> "string", v |-> toks]
PropertiesList(props) == [typeof |-> "object", v |-> props]

\* The recovery asked of the load: the empty list when JSON.parse throws.
parsePropertiesOrEmpty(field) ==
  IF field.typeof = "string"
  THEN LET r == JSONparse(field.v) IN
       [threw |-> FALSE, properties |-> IF r.ok THEN r.v ELSE <<>>]
  ELSE [threw |-> FALSE, properties |-> field.v]

\* typeof db.properties === 'string' ? JSON.parse(db.properties) : db.properties
parseProperties(field) ==
  IF field.typeof = "string"
  THEN LET r == JSONparse(field.v) IN
       [threw |-> ~r.ok, properties |-> IF r.ok THEN r.v ELSE <<>>]
  ELSE [threw |-> FALSE, properties |-> field.v]

\* databasesData.map(db => ({ ...db, properties: ... })): the map throws when
\* one JSON.parse throws.
parsedDatabases(records) ==
  [threw |-> \E i \in 1..Len(records) : parseProperties(records[i].properties).threw,
   databases |-> [i \in 1..Len(records) |->
                    [id |-> records[i].id,
                     properties |-> parseProperties(records[i].properties).properties]]]

DatabaseIdAt(t) == "db-" \o ToString(t)

\* The properties fields a record may hold: what createDatabase and the
\* builder write, a parsed list, and two texts that are not JSON.
StoredProperties ==
  {PropertiesText(stringifyProperties(<<>>)),
   PropertiesText(stringifyProperties(
     <<Property(PropertyIdAt(1), <<"A">>, "select", TRUE)>>)),
   PropertiesList(<<Property(PropertyIdAt(1), <<"A">>, "text", FALSE)>>),
   PropertiesText(<<Punct("[")>>),
   PropertiesText(<<RawTok("name, type")>>)}

RecordLists ==
  UNION {[1..n -> StoredProperties] : n \in 0..MaxRecords}

\* editingDatabase = null
NoDatabase == [id |-> "null"]

ProjectInit(fields) ==
  /\ databaseRecords = [i \in 1..Len(fields) |->
                          [id |-> DatabaseIdAt(i), properties |-> fields[i]]]
  /\ databases = <<>>
  /\ projectLoad = "me"
  /\ loading = TRUE
  /\ editingDatabase = NoDatabase
  /\ isDatabaseBuilderOpen = FALSE
  /\ databaseSaves = <<>>

otherThanProject == <<editorVars, viewerVars, builderVars, createVars>>

\* The awaited calls of loadProjectData, in order.
NextProjectPc(pc) ==
  CASE pc = "me" -> "project"
    [] pc = "project" -> "pages"
    [] pc = "pages" -> "databases"
    [] OTHER -> "done"

\* One awaited call of loadProjectData resolved.  After databases.list the
\* records are parsed: a throw goes to the catch branch, which logs, and
\* setDatabases is not reached.
ProjectLoadStep ==
  /\ projectLoad \in {"me", "project", "pages", "databases"}
  /\ IF projectLoad = "databases"
     THEN LET parsed == parsedDatabases(databaseRecords) IN
          /\ databases' = IF parsed.threw THEN databases ELSE parsed.databases
          /\ projectLoad' = IF parsed.threw THEN "parseFailed" ELSE "done"
          /\ loading' = FALSE
     ELSE /\ projectLoad' = NextProjectPc(projectLoad)
          /\ UNCHANGED <<databases, loading>>
  /\ UNCHANGED <<databaseRecords, editingDatabase, isDatabaseBuilderOpen,
                 databaseSaves, otherThanProject>>

\* One awaited call of loadProjectData rejected: catch and finally.
ProjectLoadFailed ==
  /\ projectLoad \in {"me", "project", "pages", "databases"}
  /\ projectLoad' = "failed"
  /\ loading' = FALSE
  /\ UNCHANGED <<databaseRecords, databases, editingDatabase,
                 isDatabaseBuilderOpen, databaseSaves, otherThanProject>>

\* The project page while it loads.
NextProject ==
  \/ ProjectLoadStep
  \/ ProjectLoadFailed

\* ------------------------------------------------------------------------
\* ProjectPage.createPage
\* ------------------------------------------------------------------------
PageIdAt(t) == "page-" \o ToString(t)

\* currentPage = null
NoPage == [id |-> "null"]

\* The pages of a project when the page mounts: none, or the main page that
\* handleCreateProject made (it sets isMainPage and no position).
InitialPageLists == {<<>>, <<[id |-> PageIdAt(0), isMainPage |-> TRUE]>>}

\* ProjectPage after loadProjectData, as far as pages go: the main page, if
\* there is one, is the current page.
PagesInit(ps) ==
  /\ pages = ps
  /\ pageRecords = ps
  /\ pageCreates = <<>>
  /\ currentPage = IF ps = <<>> THEN NoPage ELSE ps[1]
  /\ isCreatePageOpen = FALSE

otherThanPages == <<editorVarsButTicks, viewerVars, builderVars, projectVars,
                    projectsVars>>

\* The buttons that open the create-page dialog.
OpenCreatePage ==
  /\ ~isCreatePageOpen
  /\ isCreatePageOpen' = TRUE
  /\ UNCHANGED <<pages, pageRecords, pageCreates, currentPage, ticks,
                 otherThanPages>>

\* onOpenChange={setIsCreatePageOpen} of the dialog.
CloseCreatePage ==
  /\ isCreatePageOpen
  /\ isCreatePageOpen' = FALSE
  /\ UNCHANGED <<pages, pageRecords, pageCreates, currentPage, ticks,
                 otherThanPages>>

\* CreatePageForm submits a title: createPage up to its first await.  The
\* function is the one of the render that drew the form, so pages.length is
\* the length of the list at this moment, whatever happens during the awaits.
CreatePage ==
  /\ isCreatePageOpen
  /\ Len(pageCreates) < MaxPageCreates
  /\ Len(pageRecords) + Len(pageCreates) < MaxPages
  /\ pageCreates' = Append(pageCreates,
                           [pc |-> "me", length |-> Len(pages), page |-> NoPage])
  /\ UNCHANGED <<pages, pageRecords, currentPage, isCreatePageOpen, ticks,
                 otherThanPages>>

\* newPage of createPage, with the clock at tick t and pages.length = length.
newPage(length, t) ==
  [id |-> PageIdAt(DateNow(t)), position |-> length, isMainPage |-> length = 0]

\* auth.me of the i-th pending call resolved at tick t: newPage is built and
\* pages.create is issued.
PageCreateStep(i, t) ==
  /\ pageCreates[i].pc = "me"
  /\ t >= ticks
  /\ ticks' = t
  /\ pageCreates' = [pageCreates EXCEPT
                       ![i].pc = "create",
                       ![i].page = newPage(pageCreates[i].length, t)]
  /\ UNCHANGED <<pages, pageRecords, currentPage, isCreatePageOpen,
                 otherThanPages>>

\* pages.create of the i-th pending call resolved: setPages(prev => [...prev,
\* createdPage]), setCurrentPage(createdPage), setIsCreatePageOpen(false).
PageCreateDone(i) ==
  /\ pageCreates[i].pc = "create"
  /\ pageRecords' = Append(pageRecords, pageCreates[i].page)
  /\ pages' = Append(pages, [pageCreates[i].page EXCEPT
                               !.isMainPage = pageCreates[i].length = 0])
  /\ currentPage' = [pageCreates[i].page EXCEPT
                       !.isMainPage = pageCreates[i].length = 0]
  /\ isCreatePageOpen' = FALSE
  /\ pageCreates' = RemoveAt(pageCreates, i)
  /\ UNCHANGED <<ticks, otherThanPages>>

\* auth.me or pages.create of the i-th pending call rejected: logged.
PageCreateFailed(i) ==
  /\ pageCreates' = RemoveAt(pageCreates, i)
  /\ UNCHANGED <<pages, pageRecords, currentPage, isCreatePageOpen, ticks,
                 otherThanPages>>

\* Creating pages in a project page.
NextPages ==
  \/ OpenCreatePage
  \/ CloseCreatePage
  \/ CreatePage
  \/ \E i \in 1..Len(pageCreates), t \in 0..MaxTicks : PageCreateStep(i, t)
  \/ \E i \in 1..Len(pageCreates) : PageCreateDone(i)
  \/ \E i \in 1..Len(pageCreates) : PageCreateFailed(i)

\* ------------------------------------------------------------------------
\* Projects.handleCreateProject
\* ------------------------------------------------------------------------
\* The id the backend gives the n-th project record.
ProjectIdAt(n) == "proj-" \o ToString(n)

NoProject == [id |-> "null"]

\* The form as useState and the reset after a creation leave it.
EmptyProjectForm == [title |-> <<>>]

\* The Projects page of a signed-in user whose project list has loaded empty.
ProjectsInit ==
  /\ projects = <<>>
  /\ projectRecords = <<>>
  /\ projectCreates = <<>>
  /\ newProject = EmptyProjectForm
  /\ isCreateDialogOpen = FALSE

otherThanProjects == <<editorVars, viewerVars, builderVars, projectVars>>

\* The New Project button.
OpenCreateDialog ==
  /\ ~isCreateDialogOpen
  /\ isCreateDialogOpen' = TRUE
  /\ UNCHANGED <<projects, projectRecords, projectCreates, newProject,
                 pagesVars, otherThanProjects>>

\* onOpenChange={setIsCreateDialogOpen} of the dialog; the form keeps its text.
CloseCreateDialog ==
  /\ isCreateDialogOpen
  /\ isCreateDialogOpen' = FALSE
  /\ UNCHANGED <<projects, projectRecords, projectCreates, newProject,
                 pagesVars, otherThanProjects>>

\* The title input of the form.
SetProjectTitle(value) ==
  /\ isCreateDialogOpen
  /\ value # newProject.title
  /\ newProject' = [newProject EXCEPT !.title = value]
  /\ UNCHANGED <<projects, projectRecords, projectCreates, isCreateDialogOpen,
                 pagesVars, otherThanProjects>>

\* Projects in the backend or about to be written there.
projectsInFlight ==
  Len(projectRecords)
    + Cardinality({i \in 1..Len(projectCreates) : projectCreates[i].pc = "project"})

\* handleCreateProject up to projects.create (the button is disabled and the
\* function returns when the title is blank).
HandleCreateProject ==
  /\ isCreateDialogOpen
  /\ trim(newProject.title) # <<>>
  /\ Len(projectCreates) < MaxProjectCreates
  /\ projectsInFlight < MaxProjects
  /\ projectCreates' = Append(projectCreates,
       [pc |-> "project", title |-> newProject.title, project |-> NoProject])
  /\ UNCHANGED <<projects, projectRecords, newProject, isCreateDialogOpen,
                 pagesVars, otherThanProjects>>

\* projects.create of the i-th pending call resolved: the record exists, and
\* pages.create of the default page is issued.
ProjectCreateStep(i) ==
  /\ projectCreates[i].pc = "project"
  /\ LET project == [id |-> ProjectIdAt(Len(projectRecords) + 1),
                     title |-> projectCreates[i].title]
     IN /\ projectRecords' = Append(projectRecords, project)
        /\ projectCreates' = [projectCreates EXCEPT ![i].pc = "page",
                                                    ![i].project = project]
  /\ UNCHANGED <<projects, newProject, isCreateDialogOpen,
                 pagesVars, otherThanProjects>>

\* pages.create of the i-th pending call resolved: the default page exists,
\* the project goes to the head of the list, the form is reset and closed.
ProjectCreateDone(i) ==
  /\ projectCreates[i].pc = "page"
  /\ pageRecords' = Append(pageRecords,
                           [projectId |-> projectCreates[i].project.id,
                            title |-> projectCreates[i].title,
                            isMainPage |-> TRUE])
  /\ projects' = <<projectCreates[i].project>> \o projects
  /\ newProject' = EmptyProjectForm
  /\ isCreateDialogOpen' = FALSE
  /\ projectCreates' = RemoveAt(projectCreates, i)
  /\ UNCHANGED <<projectRecords, pages, pageCreates, currentPage,
                 isCreatePageOpen, otherThanProjects>>

\* projects.create or pages.create of the i-th pending call rejected: the
\* catch branch logs and returns.
ProjectCreateFailed(i) ==
  /\ projectCreates' = RemoveAt(projectCreates, i)
  /\ UNCHANGED <<projects, projectRecords, newProject, isCreateDialogOpen,
                 pagesVars, otherThanProjects>>

\* Creating projects in the Projects page.
NextProjects ==
  \/ OpenCreateDialog
  \/ CloseCreateDialog
  \/ \E value \in TypedNames : SetProjectTitle(value)
  \/ SetProjectTitle(<<>>)
  \/ HandleCreateProject
  \/ \E i \in 1..Len(projectCreates) : ProjectCreateStep(i)
  \/ \E i \in 1..Len(projectCreates) : ProjectCreateDone(i)
  \/ \E i \in 1..Len(projectCreates) : ProjectCreateFailed(i)

\* ------------------------------------------------------------------------
\* Specifications
\* ------------------------------------------------------------------------
\* The page editor on any of the initial contents; no database is open.
Init ==
  /\ \E c \in InitialContents : EditorInit(c)
  /\ ViewerInit(<<>>, <<>>)
  /\ BuilderInit(<<>>)
  /\ ProjectInit(<<>>)
  /\ PagesInit(<<>>)
  /\ ProjectsInit

\* The block operations the user can start.
EditNext ==
  \/ \E type \in BlockTypes, position \in AddPositions, t \in 0..MaxTicks :
       AddBlock(type, position, t)
  \/ \E i \in 1..Len(blocks) : \E content \in EditorContents(blocks[i]) :
       UpdateBlock(i, content)
  \/ \E i \in 1..Len(blocks) : DeleteBlock(i)
  \/ \E i \in 1..Len(blocks), direction \in {"up", "down"} : MoveBlock(i, direction)

\* An editing session with its uploads, saves and loads.
Next ==
  \/ ops < MaxSessionOps /\ EditNext
  \/ \E i \in 1..Len(blocks) : UploadStart(i)
  \/ UploadDone
  \/ UploadFailed
  \/ SaveStart
  \/ SaveOk
  \/ SaveFailed
  \/ Cancel
  \/ \E i \in 1..Len(loads) : LoadStep(i)
  \/ \E i \in 1..Len(loads) : LoadFailed(i)

Spec == Init /\ [][Next]_vars

\* An editing session while the backend does not answer: block operations only.
SpecEdit == Init /\ [][EditNext]_vars

\* An unknown runtime tag handed to addBlock (the type annotation is erased).
AddUnknownBlock ==
  \E position \in AddPositions, t \in 0..MaxTicks :
    AddBlock(UnknownType, position, t)

EditNextAnyTag ==
  \/ EditNext
  \/ AddUnknownBlock

\* The block operations with addBlock open to any runtime string as its tag.
SpecAnyTag == Init /\ [][EditNextAnyTag]_vars

\* handleTitleChange(newTitle): setTitle, and onTitleChange renames the page in
\* the lists of ProjectPage.  isEditing is left as it is.
TitleChange(newTitle) ==
  /\ ~crashed
  /\ newTitle # title
  /\ title' = newTitle
  /\ last' = Op("title", "", -1, "", -1)
  /\ UNCHANGED <<blocks, isEditing, page, stored, loads, saves, uploads, ticks,
                 crashed, ops, snapshot, storedTitle, databaseVars>>

\* One block operation, title changes, and the saves and loads around them.
NextSave ==
  \/ ops < MaxSaveOps /\ EditNext
  \/ \E newTitle \in TypedTitles : TitleChange(newTitle)
  \/ SaveStart
  \/ SaveOk
  \/ SaveFailed
  \/ Cancel
  \/ \E i \in 1..Len(loads) : LoadStep(i)
  \/ \E i \in 1..Len(loads) : LoadFailed(i)

SpecSave == Init /\ [][NextSave]_vars

\* The database viewer mounted on one of the schemas.
InitViewer ==
  /\ EditorInit(NullContent)
  /\ \E props \in Schemas, store \in InitialEntryStores : ViewerInit(props, store)
  /\ BuilderInit(<<>>)
  /\ ProjectInit(<<>>)
  /\ PagesInit(<<>>)
  /\ ProjectsInit

SpecViewer == InitViewer /\ [][NextViewer]_vars

\* The database builder opened on one of its schemas.
InitBuilder ==
  /\ EditorInit(NullContent)
  /\ ViewerInit(<<>>, <<>>)
  /\ \E props \in BuilderSchemas : BuilderInit(props)
  /\ ProjectInit(<<>>)
  /\ PagesInit(<<>>)
  /\ ProjectsInit

SpecBuilder == InitBuilder /\ [][NextBuilder]_vars

\* ProjectPage mounted on a project with some database records.
InitProject ==
  /\ EditorInit(NullContent)
  /\ ViewerInit(<<>>, <<>>)
  /\ BuilderInit(<<>>)
  /\ \E fields \in RecordLists : ProjectInit(fields)
  /\ PagesInit(<<>>)
  /\ ProjectsInit

SpecProject == InitProject /\ [][NextProject]_vars

\* ------------------------------------------------------------------------
\* The project page with a loaded project: the sidebar and the viewer
\* ------------------------------------------------------------------------
\* The databases of the sidebar of a project whose load has finished.
SidebarDatabases ==
  <<[id |-> DatabaseIdAt(1),
     properties |-> <<Property(PropertyIdAt(1), <<"A">>, "text", FALSE)>>],
    [id |-> DatabaseIdAt(2),
     properties |-> <<Property(PropertyIdAt(1), <<"A">>, "number", FALSE),
                      Property(PropertyIdAt(2), <<"B">>, "checkbox", TRUE)>>]>>

\* The entry records of the backend of that project: one entry per database.
SidebarEntries ==
  <<[id |-> EntryIdAt(1), databaseId |-> DatabaseIdAt(1),
     data |-> (<<"A">> :> StringValue(<<"A", "b">>))],
    [id |-> EntryIdAt(0), databaseId |-> DatabaseIdAt(2),
     data |-> (<<"A">> :> StringValue(<<>>)) @@ (<<"B">> :> BooleanValue(TRUE))]>>

\* The project page once loadProjectData has finished on the records of dbs.
ProjectLoaded(dbs) ==
  /\ databaseRecords =
       [i \in 1..Len(dbs) |->
          [id |-> dbs[i].id,
           properties |-> PropertiesText(stringifyProperties(dbs[i].properties))]]
  /\ databases = dbs
  /\ projectLoad = "done"
  /\ loading = FALSE
  /\ editingDatabase = NoDatabase
  /\ isDatabaseBuilderOpen = FALSE
  /\ databaseSaves = <<>>

\* onClick={() => setCurrentDatabase(database)} of the k-th database of the
\* sidebar.  The viewer has no key, so the instance stays mounted and gets a
\* new database prop: the effect of [database.id, loadEntries] issues a
\* loadEntries call when the id changed, and the effect of the form runs on
\* the new properties.  Nothing cancels the loads still pending.
SelectDatabase(k) ==
  /\ CanUseViewer
  /\ ~isAddEntryOpen
  /\ ~isDatabaseBuilderOpen
  /\ databases[k] # database
  /\ database' = databases[k]
  /\ IF databases[k].id # database.id
     THEN /\ Len(entryLoads) < MaxEntryLoads
          /\ entryLoads' = Append(entryLoads, databases[k].id)
     ELSE UNCHANGED entryLoads
  /\ formData' = formEffect(editingEntry, databases[k].properties)
  /\ entryOps' = entryOps + 1
  /\ UNCHANGED <<entries, searchQuery, isAddEntryOpen, editingEntry,
                 entrySaves, entryStore, entryCalls, otherThanViewer>>

\* The viewer of a loaded project: the user works in the viewer and moves
\* between the databases of the sidebar.
InitSelect ==
  /\ EditorInit(NullContent)
  /\ ViewerInit(SidebarDatabases[1].properties, SidebarEntries)
  /\ BuilderInit(<<>>)
  /\ ProjectLoaded(SidebarDatabases)
  /\ PagesInit(<<>>)
  /\ ProjectsInit

NextSelect ==
  \/ NextViewer
  \/ \E k \in 1..Len(databases) : SelectDatabase(k)

SpecSelect == InitSelect /\ [][NextSelect]_vars

\* ------------------------------------------------------------------------
\* The project page with a loaded project: editing the schema of a database
\* ------------------------------------------------------------------------
\* The state of the builder is gone when its dialog is closed.
BuilderUnmounted ==
  /\ properties' = <<>>
  /\ isPropertyDialogOpen' = FALSE
  /\ editingProperty' = NoProperty
  /\ propertyDialog' = dialogEffect(NoProperty)

\* editDatabase(db): "Edit Structure" of a database of the sidebar, or the
\* Edit button of the viewer (onEdit={() => editDatabase(currentDatabase)}).
\* The builder mounts with useState(database?.properties || []).
EditDatabase(db) ==
  /\ ~isDatabaseBuilderOpen
  /\ ~isAddEntryOpen
  /\ editingDatabase' = db
  /\ isDatabaseBuilderOpen' = TRUE
  /\ properties' = db.properties
  /\ isPropertyDialogOpen' = FALSE
  /\ editingProperty' = NoProperty
  /\ propertyDialog' = dialogEffect(NoProperty)
  /\ UNCHANGED <<builderOps, databaseRecords, databases, projectLoad, loading,
                 databaseSaves, editorVars, createVars, viewerVars>>

\* DatabaseBuilder.handleSave up to its first await (the name of an existing
\* database is not blank): the closure keeps the database prop, the
\* properties of this render and the onSave of this render.
DatabaseHandleSave ==
  /\ isDatabaseBuilderOpen
  /\ ~isPropertyDialogOpen
  /\ Len(databaseSaves) < MaxDatabaseSaves
  /\ databaseSaves' = Append(databaseSaves,
       [pc |-> "me", database |-> editingDatabase, properties |-> properties,
        editing |-> editingDatabase # NoDatabase])
  /\ UNCHANGED <<databaseRecords, databases, projectLoad, loading,
                 editingDatabase, isDatabaseBuilderOpen,
                 editorVars, createVars,
                 viewerVars, builderVars>>

\* auth.me resolved: databases.update(database.id, { ..., properties }) is issued.
DatabaseSaveStep ==
  /\ databaseSaves # <<>>
  /\ Head(databaseSaves).pc = "me"
  /\ databaseSaves' = <<[Head(databaseSaves) EXCEPT !.pc = "write"]>>
                        \o Tail(databaseSaves)
  /\ UNCHANGED <<databaseRecords, databases, projectLoad, loading,
                 editingDatabase, isDatabaseBuilderOpen,
                 editorVars, createVars,
                 viewerVars, builderVars>>

\* databases.update on the records of the backend.
updateRecord(records, id, props) ==
  [i \in 1..Len(records) |->
     IF records[i].id = id
     THEN [records[i] EXCEPT !.properties = PropertiesText(stringifyProperties(props))]
     ELSE records[i]]

\* handleDatabaseSave(savedDatabase): setDatabases of ProjectPage.
handleDatabaseSave(dbs, editing, savedDatabase) ==
  IF editing
  THEN [i \in 1..Len(dbs) |->
          IF dbs[i].id = savedDatabase.id THEN savedDatabase ELSE dbs[i]]
  ELSE Append(dbs, savedDatabase)

\* The key old of an entry's data renamed to new.
renamedKey(data, old, new) ==
  IF old \in DOMAIN data
  THEN [k \in (DOMAIN data \ {old}) \cup {new} |->
          IF k = new THEN data[old] ELSE data[k]]
  ELSE data

RECURSIVE migratedData(_, _, _, _)
\* The data of an entry with the keys of the renamed properties renamed.
migratedData(data, old, new, i) ==
  IF i > Len(new) THEN data
  ELSE LET before == SelectSeq(old, LAMBDA p : p.id = new[i].id) IN
       migratedData(IF before # <<>> /\ before[1].name # new[i].name
                    THEN renamedKey(data, before[1].name, new[i].name)
                    ELSE data,
                    old, new, i + 1)

\* Variant of DatabaseSaveDone that moves the values of the entries of the
\* database to the new names of its renamed properties.
DatabaseSaveDoneMigrating ==
  /\ databaseSaves # <<>>
  /\ Head(databaseSaves).pc = "write"
  /\ LET sv == Head(databaseSaves)
         savedDatabase == [id |-> sv.database.id, properties |-> sv.properties]
         migrated(es) ==
           [i \in 1..Len(es) |->
              IF es[i].databaseId = sv.database.id
              THEN [es[i] EXCEPT !.data =
                      migratedData(es[i].data, sv.database.properties,
                                   sv.properties, 1)]
              ELSE es[i]]
     IN /\ databaseRecords' = updateRecord(databaseRecords, sv.database.id,
                                           sv.properties)
        /\ databases' = handleDatabaseSave(databases, sv.editing, savedDatabase)
        /\ entryStore' = migrated(entryStore)
        /\ entries' = migrated(entries)
  /\ databaseSaves' = Tail(databaseSaves)
  /\ isDatabaseBuilderOpen' = FALSE
  /\ editingDatabase' = NoDatabase
  /\ BuilderUnmounted
  /\ UNCHANGED <<projectLoad, loading, builderOps, editorVars, createVars,
                 database, searchQuery, isAddEntryOpen, editingEntry, formData,
                 entryLoads, entrySaves, entryCalls, entryOps>>

\* databases.update resolved: the record holds the new properties, and
\* onSave({ ...databaseData, properties }) runs handleDatabaseSave, which
\* replaces the database in the list, closes the builder and resets
\* editingDatabase.  Neither the entries nor currentDatabase are touched.
DatabaseSaveDone ==
  /\ databaseSaves # <<>>
  /\ Head(databaseSaves).pc = "write"
  /\ LET sv == Head(databaseSaves)
         savedDatabase == [id |-> sv.database.id, properties |-> sv.properties]
     IN /\ databaseRecords' = updateRecord(databaseRecords, sv.database.id,
                                           sv.properties)
        /\ databases' = handleDatabaseSave(databases, sv.editing, savedDatabase)
  /\ databaseSaves' = Tail(databaseSaves)
  /\ isDatabaseBuilderOpen' = FALSE
  /\ editingDatabase' = NoDatabase
  /\ BuilderUnmounted
  /\ UNCHANGED <<projectLoad, loading, builderOps, editorVars, createVars, viewerVars>>

\* auth.me or databases.update rejected: the catch branch logs; the builder
\* stays as it is.
DatabaseSaveFailed ==
  /\ databaseSaves # <<>>
  /\ databaseSaves' = Tail(databaseSaves)
  /\ UNCHANGED <<databaseRecords, databases, projectLoad, loading,
                 editingDatabase, isDatabaseBuilderOpen,
                 editorVars, createVars,
                 viewerVars, builderVars>>

\* onCancel of the builder.
CancelDatabaseBuilder ==
  /\ isDatabaseBuilderOpen
  /\ ~isPropertyDialogOpen
  /\ isDatabaseBuilderOpen' = FALSE
  /\ editingDatabase' = NoDatabase
  /\ BuilderUnmounted
  /\ UNCHANGED <<databaseRecords, databases, projectLoad, loading,
                 databaseSaves, builderOps, editorVars, createVars, viewerVars>>

\* onOpenChange={setIsDatabaseBuilderOpen} of the dialog around the builder
\* (Escape, click outside): editingDatabase keeps its value.
DismissDatabaseBuilder ==
  /\ isDatabaseBuilderOpen
  /\ ~isPropertyDialogOpen
  /\ isDatabaseBuilderOpen' = FALSE
  /\ BuilderUnmounted
  /\ UNCHANGED <<databaseRecords, databases, projectLoad, loading,
                 editingDatabase, databaseSaves, builderOps, editorVars, createVars,
                 viewerVars>>

\* renderPropertyValue(property, entry.data[property.name]): the value a
\* table cell is drawn from.
tableCell(entry, property) == get(entry.data, property.name)

\* A loaded project with one database, shown by the viewer: the user edits
\* its schema, selects it again and sees its entries.
InitSchema ==
  /\ EditorInit(NullContent)
  /\ ViewerInit(SidebarDatabases[1].properties, SidebarEntries)
  /\ BuilderInit(<<>>)
  /\ ProjectLoaded(<<SidebarDatabases[1]>>)
  /\ PagesInit(<<>>)
  /\ ProjectsInit

NextSchema ==
  \/ isDatabaseBuilderOpen /\ NextBuilder
  \/ \E k \in 1..Len(databases) : EditDatabase(databases[k])
  \/ EditDatabase(database)
  \/ DatabaseHandleSave
  \/ DatabaseSaveStep
  \/ DatabaseSaveDone
  \/ DatabaseSaveFailed
  \/ CancelDatabaseBuilder
  \/ DismissDatabaseBuilder
  \/ \E k \in 1..Len(databases) : SelectDatabase(k)
  \/ \E i \in 1..Len(entryLoads) : EntryLoadDone(i)
  \/ \E i \in 1..Len(entryLoads) : EntryLoadFailed(i)

SpecSchema == InitSchema /\ [][NextSchema]_vars

\* A project page whose user creates pages.
InitPages ==
  /\ EditorInit(NullContent)
  /\ ViewerInit(<<>>, <<>>)
  /\ BuilderInit(<<>>)
  /\ ProjectLoaded(<<>>)
  /\ \E ps \in InitialPageLists : PagesInit(ps)
  /\ ProjectsInit

SpecPages == InitPages /\ [][NextPages]_vars

\* The Projects page.
InitProjects ==
  /\ EditorInit(NullContent)
  /\ ViewerInit(<<>>, <<>>)
  /\ BuilderInit(<<>>)
  /\ ProjectInit(<<>>)
  /\ PagesInit(<<>>)
  /\ ProjectsInit

SpecProjects == InitProjects /\ [][NextProjects]_vars

\* ------------------------------------------------------------------------
\* Properties
\* ------------------------------------------------------------------------
\* Two blocks agree in everything but their position.
sameBlock(a, b) == a.id = b.id /\ a.type = b.type /\ a.content = b.content

\* C1: after every sequence of insert, remove and move operations the
\* positions of the block list are 0..n-1 in array order.
PositionsMatchOrder ==
  \A i \in 1..Len(blocks) : blocks[i].position = i - 1

\* C1 witness: the first of three blocks was removed, so both remaining blocks
\* had to be renumbered.
PositionsMatchOrderWitness ==
  /\ last.op = "delete"
  /\ last.index = 0
  /\ Len(blocks) = 2
  /\ ops = 3

\* C2: moveBlock up for the id that addresses the first block, and moveBlock
\* down for the id that addresses the last block, leave the block list as it is.
MoveAtEndsIsNoOp ==
  \A i \in 1..Len(blocks) :
    LET id == blocks[i].id IN
    /\ findIndex(blocks, id) = 0 => moveBlock(blocks, id, "up") = blocks
    /\ findIndex(blocks, id) = Len(blocks) - 1 =>
         moveBlock(blocks, id, "down") = blocks

\* C2 witness: moveBlock ran upwards for an id it found at index 0.
MoveAtEndsIsNoOpWitness ==
  /\ last.op = "move"
  /\ last.direction = "up"
  /\ last.found = 0
  /\ Len(blocks) >= 2

\* C5: an insert adds exactly one block, with the tag asked for, right after
\* the block whose add button was used (at the end for the menu below the
\* list), and keeps every existing block, its content and the order.
InsertPlacesOneBlock ==
  \A type \in BlockTypes, position \in AddPositions :
    LET r == addBlock(blocks, type, position, DateNow(ticks))
        at == IF position = NoPosition THEN Len(blocks) ELSE position
    IN /\ Len(r) = Len(blocks) + 1
       /\ r[at + 1].type = type
       /\ r[at + 1].id = BlockIdAt(DateNow(ticks))
       /\ \A j \in 1..Len(blocks) :
            IF j <= at THEN sameBlock(r[j], blocks[j])
            ELSE sameBlock(r[j + 1], blocks[j])

\* C5 witness: a block was inserted between the first and the second block.
InsertPlacesOneBlockWitness ==
  /\ last.op = "add"
  /\ last.index = 1
  /\ Len(blocks) = 3
  /\ blocks[2].id = last.id

\* The payloads the editors of the current blocks can hand to onUpdate.
UpdatePayloads == UNION {EditorContents(blocks[i]) : i \in 1..Len(blocks)}

\* An id no block carries.
AbsentId == "block-0"

\* C6: updateBlock replaces the payload of the blocks with the given id and
\* nothing else: ids, tags, positions and order stay, blocks with another id
\* stay as they are, and an id that no block carries changes nothing.
UpdateTouchesOnlyPayload ==
  \A id \in {blocks[i].id : i \in 1..Len(blocks)} \cup {AbsentId} :
    \A content \in UpdatePayloads :
      LET r == updateBlock(blocks, id, content) IN
      /\ Len(r) = Len(blocks)
      /\ \A j \in 1..Len(blocks) :
           /\ r[j].id = blocks[j].id
           /\ r[j].type = blocks[j].type
           /\ r[j].position = blocks[j].position
           /\ IF blocks[j].id = id THEN r[j].content = content
              ELSE r[j] = blocks[j]
      /\ findIndex(blocks, id) = -1 => r = blocks

\* C6 witness: the payload of the second of two blocks was replaced.
UpdateTouchesOnlyPayloadWitness ==
  /\ last.op = "update"
  /\ last.index = 1
  /\ Len(blocks) = 2
  /\ blocks[1].id # blocks[2].id

\* C7: the ids of the blocks of the page are pairwise different.
BlockIdsUnique ==
  \A i, j \in 1..Len(blocks) : i # j => blocks[i].id # blocks[j].id

\* The payload fields the data model allows for a tag with optional fields.
OptionalFields(type) ==
  CASE type = "image" -> {"url", "caption", "alt"}
    [] type = "embed" -> {"url", "title", "description"}
    [] OTHER -> {}

\* C8: the block an insert has just made carries the default payload of its tag.
InsertedBlockHasDefaultPayload ==
  last.op = "add" =>
    LET b == blocks[last.index + 1]
        c == b.content
    IN CASE b.type = "text" -> c = [text |-> "", format |-> "paragraph"]
         [] b.type = "heading" -> c = [text |-> "", level |-> 1]
         [] b.type = "database" -> c = [databaseId |-> "", viewType |-> "table"]
         [] b.type = "gallery" -> c = [assets |-> <<>>, layout |-> "grid"]
         [] b.type \in {"image", "embed"} ->
              /\ "url" \in DOMAIN c
              /\ c.url = ""
              /\ DOMAIN c \subseteq OptionalFields(b.type)
         [] b.type = "divider" -> DOMAIN c = {}
         [] OTHER -> FALSE

\* C8 witness: blocks of all seven tags would not fit one list; a gallery block
\* was inserted after a heading block.
InsertedBlockHasDefaultPayloadWitness ==
  /\ last.op = "add"
  /\ last.index = 1
  /\ blocks[2].type = "gallery"
  /\ blocks[1].type = "heading"

\* C9: no block is made for a tag outside the fixed tag set.
UnknownTagRejected ==
  \A i \in 1..Len(blocks) : blocks[i].type \in BlockTypes

\* The stored content is the empty string, null or text that is not JSON.
EmptyOrInvalid(content) == ~truthy(content) \/ ~JSONparse(content.toks).ok

\* C3 as stated: loading empty, null or invalid content yields exactly one
\* text block with empty text (and the render that follows does not throw).
BadContentLoadsEmptyTextBlock ==
  (last.op = "load" /\ EmptyOrInvalid(page)) =>
    /\ ~crashed
    /\ Len(blocks) = 1
    /\ blocks[1].type = "text"
    /\ blocks[1].content.text = ""

\* The text block of the load fallback around the text `text`.
TextBlockOne(text) ==
  [id |-> "block-1", type |-> "text",
   content |-> [text |-> text, format |-> "paragraph"], position |-> 0]

\* C3 as amended: loading never throws; content that is not JSON yields one
\* text block holding that content as its text; empty or null content yields
\* the empty list, and one text block with empty text only after a backend
\* call of the same load failed.
BadContentLoadsFallback ==
  /\ (last.op \in {"load", "loadFailed"} /\ EmptyOrInvalid(page)) => ~crashed
  /\ (last.op = "load" /\ ~truthy(page)) => blocks = <<>>
  /\ (last.op = "loadFailed" /\ ~truthy(page)) => blocks = <<TextBlockOne("")>>
  /\ (last.op = "load" /\ truthy(page) /\ ~JSONparse(page.toks).ok) =>
       /\ blocks = <<TextBlockOne(page.toks[1].s)>>
       /\ blocks[1].content.text # ""

\* C3 witness: the markdown page of a new project was loaded.
BadContentLoadsFallbackWitness ==
  /\ last.op = "load"
  /\ page = createProjectContent
  /\ Len(blocks) = 1

\* C4: what handleSave stores for a block list is read back by the load as
\* the same list, field by field and with the same positions; the content
\* stored by the last successful save reads back as the list that was saved.
SaveLoadRoundTrip ==
  /\ loadParse(serialize(blocks)) = [threw |-> FALSE, blocks |-> blocks]
  /\ last.op = "saved" => loadParse(stored).blocks = snapshot

\* C4 witness: a list of two different blocks, one with an edited payload, was
\* saved and loaded again from the stored content.
SaveLoadRoundTripWitness ==
  /\ last.op = "saved"
  /\ ~isEditing
  /\ Len(blocks) = 2
  /\ blocks = snapshot
  /\ blocks[1].type # blocks[2].type
  /\ stored # createPageContent

\* C10: while the editor is not editing, the block list in memory is the list
\* of the last load or save (so Cancel has put that list back).
IdleMatchesSnapshot ==
  ~isEditing => blocks = snapshot

\* ------------------------------------------------------------------------
\* Properties of the database components
\* ------------------------------------------------------------------------
\* The zero value the entry form is to start a property of this type with;
\* the types the list does not name may start with any value.
ZeroValues(type) ==
  CASE type \in {"text", "date", "select", "url", "email", "phone"} ->
         {StringValue(<<>>)}
    [] type = "checkbox" -> {BooleanValue(FALSE)}
    [] type = "multiSelect" -> {ArrayValue(<<>>)}
    [] type = "rating" -> {NumberValue(0)}
    [] OTHER -> {get(formData, <<"A">>), get(formData, <<"B">>)}

\* C11: when the entry form has just opened for a new entry, the keys of the
\* form data are exactly the names of the schema's properties and the value
\* under the name of each property is the zero value of that property's type.
EmptyEntryMatchesSchema ==
  (isAddEntryOpen /\ editingEntry = NoEntry /\ entryOps = 1) =>
    /\ DOMAIN formData =
         {database.properties[i].name : i \in 1..Len(database.properties)}
    /\ \A i \in 1..Len(database.properties) :
         get(formData, database.properties[i].name)
           \in ZeroValues(database.properties[i].type)

\* The properties validateEntry is to report: required, and the value absent
\* or a string that is empty after trimming.
FailingProperties(props, data) ==
  {props[i].id : i \in {j \in 1..Len(props) :
     /\ props[j].required
     /\ LET value == get(data, props[j].name) IN
          \/ value.typeof = "undefined"
          \/ value.typeof = "string" /\ trim(value.string) = <<>>}}

\* C12: the properties the entry form reports as failing for its data are
\* the required properties whose value is absent or blank after trimming.
MarkedPropertiesAreFailing ==
  isAddEntryOpen =>
    requiredMarkers(database.properties)
      = FailingProperties(database.properties, formData)

\* Two characters that differ at most in case.
sameLetter(c, d) ==
  \/ c = d
  \/ {c, d} = {"a", "A"}
  \/ {c, d} = {"b", "B"}

\* C13: for every non-empty query, an entry is among the filtered entries
\* iff the value of some schema property in the entry is a string that
\* contains the query up to case; other values never make it match.
SearchMatchesStringsOnly ==
  \A query \in Queries \ {<<>>} :
    \A i \in 1..Len(entries) :
      LET shown == filteredEntries(entries, database.properties, query) IN
      (\E k \in 1..Len(shown) : shown[k] = entries[i])
        <=> \E j \in 1..Len(database.properties) :
              LET value == get(entries[i].data, database.properties[j].name) IN
              /\ value.typeof = "string"
              /\ \E at \in 0..(Len(value.string) - Len(query)) :
                   \A n \in 1..Len(query) :
                     sameLetter(value.string[at + n], query[n])

\* C13 witness: the search box holds "aB" and the entry shown has "Ab" under A.
SearchMatchesStringsOnlyWitness ==
  /\ searchQuery = <<"a", "B">>
  /\ Len(entries) = 1
  /\ get(entries[1].data, <<"A">>) = StringValue(<<"A", "b">>)
  /\ filteredEntries(entries, database.properties, searchQuery) = entries

\* The ids of a property list, in order.
ids(props) == [i \in 1..Len(props) |-> props[i].id]

\* C14: moveProperty swaps the property with its neighbour in the given
\* direction and leaves the others in place; at either end and for an id the
\* list does not hold the list is unchanged; no property is lost or added.
MovePropertySwapsNeighbours ==
  \A propertyId \in {properties[i].id : i \in 1..Len(properties)} \cup {PropertyIdAt(0)} :
    \A direction \in {"up", "down"} :
      LET moved == moveProperty(properties, propertyId, direction)
          at == {i \in 1..Len(properties) : properties[i].id = propertyId}
      IN /\ Len(moved) = Len(properties)
         /\ {moved[i] : i \in 1..Len(moved)} = {properties[i] : i \in 1..Len(properties)}
         /\ at = {} => moved = properties
         /\ \A i \in at :
              LET to == IF direction = "up" THEN i - 1 ELSE i + 1 IN
              IF to < 1 \/ to > Len(properties) THEN moved = properties
              ELSE /\ moved[to] = properties[i]
                   /\ moved[i] = properties[to]
                   /\ \A k \in 1..Len(properties) \ {i, to} : moved[k] = properties[k]

\* C14 witness: of [A, B, C] the property C was moved up.
MovePropertySwapsNeighboursWitness ==
  ids(properties) = <<PropertyIdAt(1), PropertyIdAt(3), PropertyIdAt(2)>>

\* C15: every property of the builder's list has a non-empty options list
\* when its type is select or multiSelect and no options field otherwise.
OptionsExactlyForSelect ==
  \A i \in 1..Len(properties) :
    IF properties[i].type \in {"select", "multiSelect"}
    THEN "options" \in DOMAIN properties[i] /\ properties[i].options # <<>>
    ELSE "options" \notin DOMAIN properties[i]


\* C16: the step in which pages.update of a save is rejected leaves the block
\* list, the title, the editing state, the page held by the owner (onSave is
\* not called) and the backend as they are and issues no new update call;
\* an update call is issued only by the save action, one per action.
FailedSaveKeepsEdit ==
  [][/\ (last'.op = "saveFailed" /\ saves' # saves) =>
          /\ blocks' = blocks
          /\ title' = title
          /\ isEditing' = isEditing
          /\ page' = page
          /\ stored' = stored /\ storedTitle' = storedTitle
          /\ saves' = Tail(saves)
     /\ Len(saves') > Len(saves) =>
          /\ last'.op = "save"
          /\ Len(saves') = Len(saves) + 1]_vars

\* C16 witness: a block was added and the title retyped, the save was
\* rejected, and the editor still shows both with its Save button.
FailedSaveKeepsEditWitness ==
  /\ last.op = "saveFailed"
  /\ isEditing
  /\ saves = <<>>
  /\ blocks # snapshot
  /\ title # storedTitle
  /\ stored = page

\* C19: a step that changes the block list through a block operation (or
\* the update of a finished upload) issues no update call and leaves the page
\* record alone; the record changes only when a pending save resolves, to
\* that save's content; and a save action issues one call whose content is
\* the text of the whole block list.
PersistOnlyOnSave ==
  [][/\ (ops' # ops \/ uploads' # uploads) =>
          saves' = saves /\ stored' = stored /\ storedTitle' = storedTitle
     /\ (stored' # stored \/ storedTitle' # storedTitle) =>
          /\ saves # <<>>
          /\ stored' = Head(saves).content
          /\ storedTitle' = Head(saves).title
          /\ saves' = Tail(saves)
     /\ Len(saves') > Len(saves) =>
          /\ last'.op = "save"
          /\ Len(saves') = Len(saves) + 1
          /\ loadParse(saves'[Len(saves')].content)
               = [threw |-> FALSE, blocks |-> blocks]]_vars

\* C19 witness: two block operations were done on a loaded page, and the
\* page record still holds what it held before them.
PersistOnlyOnSaveWitness ==
  /\ ops = 2
  /\ last.op \in {"add", "update", "delete", "move"}
  /\ isEditing
  /\ saves = <<>>
  /\ blocks # snapshot
  /\ loadParse(stored).blocks = snapshot

\* The lists of databases a page editor may have loaded.
LoadedDatabases == {<<>>, <<[id |-> "db-1"]>>, <<[id |-> "db-1"], [id |-> "db-2"]>>}

\* C17: the render of a block list that holds a database block does not
\* throw, and a database block whose databaseId is not empty and is the id
\* of no loaded database is drawn as "Database not found".
DatabaseBlockRenders ==
  \A i \in 1..Len(blocks) :
    blocks[i].type = "database" =>
      /\ ~renderThrows(<<blocks[i]>>)
      /\ ~crashed
      /\ \A dbs \in LoadedDatabases :
           (/\ truthyField(blocks[i].content, "databaseId")
            /\ \A k \in 1..Len(dbs) : dbs[k].id # blocks[i].content.databaseId)
             => DatabaseBlockEditor(blocks[i], dbs) = "not found"

\* C18: once databases.list of the project load has resolved, every record
\* is in the databases list, with its parsed properties, or with the empty
\* property list when its properties field does not parse.
BadPropertiesLoadEmpty ==
  projectLoad \in {"done", "parseFailed"} =>
    /\ Len(databases) = Len(databaseRecords)
    /\ \A i \in 1..Len(databases) :
         /\ databases[i].id = databaseRecords[i].id
         /\ databases[i].properties =
              parsePropertiesOrEmpty(databaseRecords[i].properties).properties

\* C20: whenever the entry form is open its save action can be taken,
\* whatever the form holds under the required properties; the action hands
\* the form data to saveEntry, and saveEntry sends that data to the backend.
SaveNeverBlocked ==
  /\ [](isAddEntryOpen /\ CanUseViewer /\ Len(entrySaves) < MaxEntrySaves
          => ENABLED EntryHandleSave)
  /\ [][/\ Len(entrySaves') > Len(entrySaves) =>
             entrySaves'[Len(entrySaves')].data = formData
        /\ Len(entryCalls') > Len(entryCalls) =>
             /\ entrySaves # <<>>
             /\ entryCalls'[Len(entryCalls')].data = Head(entrySaves).data]_vars

\* C20 witness: a create call went to the backend with data in which a
\* required property is blank.
SaveNeverBlockedWitness ==
  /\ entryCalls # <<>>
  /\ entryCalls[1].op = "create"
  /\ FailingProperties(database.properties, entryCalls[1].data) # {}

\* C24: when databases.list or assets.list of a page load is rejected, the
\* block list is what it was before the rejection: the blocks parsed from
\* the content are not replaced by the fallback text block.
ListFailureKeepsBlocks ==
  [][\A i \in 1..Len(loads) :
       (loads[i].pc \in {"databases", "assets"} /\ LoadFailed(i))
         => blocks' = blocks]_vars

\* C30: a block operation or a resolved upload that leaves the block list as
\* it was, taken in the idle state, leaves the editor idle.
UnchangedListStaysIdle ==
  [][(/\ last'.op \in {"update", "delete", "move", "uploaded"}
      /\ last' # last
      /\ blocks' = blocks
      /\ ~isEditing)
       => ~isEditing']_vars

\* C26: in the builder every property name is non-empty after trimming and
\* no two properties of the schema have the same name.
PropertyNamesUniqueNonEmpty ==
  /\ \A i \in 1..Len(properties) : trim(properties[i].name) # <<>>
  /\ \A i, j \in 1..Len(properties) :
       properties[i].name = properties[j].name => i = j

\* The shape a value of a property of the given type has in an entry's data
\* (the types without a stated shape accept every value).
hasShape(type, value) ==
  CASE type \in {"number", "rating"} -> value.typeof = "number"
    [] type = "checkbox" -> value.typeof = "boolean"
    [] type = "multiSelect" -> value.typeof = "array"
    [] type \in {"text", "url", "email", "phone", "date"} -> value.typeof = "string"
    [] OTHER -> TRUE

\* C22: the data of every entry created through the form holds, under the
\* name of each property of the schema, a value of the shape of its type.
CreatedDataHasShape ==
  \A k \in 1..Len(entryCalls) :
    entryCalls[k].op = "create" =>
      \A i \in 1..Len(database.properties) :
        LET property == database.properties[i] IN
          property.name \in DOMAIN entryCalls[k].data =>
            hasShape(property.type, entryCalls[k].data[property.name])

\* C25: every time Add Entry opens the dialog, the form data is the empty
\* entry of the schema.
AddEntryOpensEmptyForm ==
  [][AddEntry => formData' = initialData(database.properties)]_vars

\* C23: when the entries shown are those of the database shown and the last
\* pending load resolves, the entries shown are still those of the database
\* shown, whichever load it was.
LastLoadShowsCurrent ==
  [][\A i \in 1..Len(entryLoads) :
       (/\ EntryLoadDone(i)
        /\ entryLoads' = <<>>
        /\ entries = listEntries(entryStore, database.id))
         => entries' = listEntries(entryStore, database.id)]_vars

\* C29: the database shown by the viewer has the properties of the database
\* with its id in the databases list.
ViewerShowsSavedSchema ==
  \A k \in 1..Len(databases) :
    databases[k].id = database.id => databases[k].properties = database.properties

\* C21: a schema save leaves every entry as it was, in the backend and in
\* the viewer; for a property saved under a new name, an entry of the
\* database that held a value under the old name still holds it there, and
\* its table cell under the renamed property is empty unless the entry has
\* a value of its own under the new name.
RenameKeepsEntryData ==
  [][DatabaseSaveDone =>
       /\ entryStore' = entryStore
       /\ entries' = entries
       /\ LET sv == Head(databaseSaves) IN
          \A i \in 1..Len(sv.properties) : \A j \in 1..Len(entryStore) :
            LET property == sv.properties[i]
                before == SelectSeq(sv.database.properties,
                                    LAMBDA q : q.id = property.id)
            IN (/\ before # <<>>
                /\ before[1].name # property.name
                /\ entryStore[j].databaseId = sv.database.id
                /\ before[1].name \in DOMAIN entryStore[j].data)
                 => /\ before[1].name \in DOMAIN entryStore'[j].data
                    /\ entryStore'[j].data[before[1].name]
                         = entryStore[j].data[before[1].name]
                    /\ property.name \notin DOMAIN entryStore[j].data
                         => tableCell(entryStore'[j], property) = Undefined]_vars

\* C21 witness: property prop-1 of db-1 was saved under a name other than
\* A, and the entry of db-1 still holds its value under A, which is no
\* longer the name of a property; the cell under the new name is empty.
RenameKeepsEntryDataWitness ==
  /\ databaseSaves = <<>>
  /\ Len(databases[1].properties) = 1
  /\ databases[1].properties[1].id = PropertyIdAt(1)
  /\ databases[1].properties[1].name = <<"B">>
  /\ databaseRecords[1].properties
       = PropertiesText(stringifyProperties(databases[1].properties))
  /\ entryStore[1].databaseId = databases[1].id
  /\ entryStore[1].data[<<"A">>] = StringValue(<<"A", "b">>)
  /\ tableCell(entryStore[1], databases[1].properties[1]) = Undefined

\* C27: at most one page of the list is the main page, and the pages made
\* by createPage have pairwise distinct positions.
CreatedPagesConsistent ==
  /\ Cardinality({i \in 1..Len(pages) : pages[i].isMainPage}) <= 1
  /\ \A i, j \in 1..Len(pages) :
       (/\ "position" \in DOMAIN pages[i]
        /\ "position" \in DOMAIN pages[j]
        /\ pages[i].position = pages[j].position) => i = j

\* C28: when no handleCreateProject call is pending, the projects of the
\* backend are the projects of the list.
ProjectCreationAllOrNothing ==
  projectCreates = <<>> =>
    {projectRecords[i].id : i \in 1..Len(projectRecords)}
      = {projects[i].id : i \in 1..Len(projects)}

====
